---- MODULE Spec2Model ----
(***************************************************************************)
(* Model of the daily entry view of the macro logger (FoodEntryList.tsx),  *)
(* together with the parts of its environment that act on it: the          *)
(* food_entries table of the backend, the remote calls in flight, the      *)
(* realtime channels and the wall clock.                                   *)
(*                                                                         *)
(* Time is counted in slots.  A slot is one instant; the clock shows        *)
(* SlotsPerDay instants of every UTC day: 00:30:00.000, 23:30:00.000 and   *)
(* 23:59:59.500, the last one after 23:59:59.000.  Rows stamped in the     *)
(* same slot have equal created_at.  The browser is in UTC, one hour ahead *)
(* of it or one hour behind it: in UTC toDateString and toISOString name   *)
(* the same calendar day, one hour ahead the last two instants of a UTC    *)
(* day are on the next local day, one hour behind the first instant of a   *)
(* UTC day is on the previous local day.                                   *)
(***************************************************************************)
EXTENDS Integers, Sequences, FiniteSets, TLC

\* ------------------------------------------------------------- bounds
SlotsPerDay == 3
MaxNow == 2
MaxZone == 2
MaxDelay == 1
MaxBack == 1
MaxRows == 2
MaxInFlight == 2
MaxLeaving == 1
MaxTimers == 1
MaxCalls == 2
LastDay == 31
MaxWeeksBack == 1
MaxMonthsBack == 1
MaxMonthsAhead == 1
MaxSaved == 2
MaxMessageTimers == 2
MaxGoalsCalls == 2
MaxLiveGoalsCalls == 1
MantissaBits == 10
MaxLen == 3

\* ------------------------------------------------------------- values
\* A number field of a form or of a row is << >> when it is blank or null and
\* << n >> when it holds the number n.
Null == << >>
NoError == "none"

\* What a user types into the log form or the edit form (Null = a field left
\* blank).
Foods ==
  { [calories |-> << 200 >>, protein |-> << 20 >>, carbs |-> Null,
     fats |-> Null, quantity |-> << 1 >>],
    [calories |-> << 100 >>, protein |-> << 0 >>, carbs |-> << 0 >>,
     fats |-> Null, quantity |-> << 2 >>] }

MkRow(rid, at, f) ==
  [id |-> rid, created_at |-> at, calories |-> f.calories, protein |-> f.protein,
   carbs |-> f.carbs, fats |-> f.fats, quantity |-> f.quantity]

\* ------------------------------------------------------------- dates
\* The slots at the end of a UTC day that are on the next local day (a zone
\* ahead of UTC) or, negated, the slots at its start that are on the
\* previous local day (a zone behind UTC).
VARIABLE zone

\* The time zones of the browser: one hour behind UTC, UTC, one hour ahead.
Zones == {0 - 1, 0, MaxZone}

\* date.toISOString().split('T')[0]: the calendar day of an instant.
formatDate(date) == date \div SlotsPerDay

\* date.toDateString(): the calendar day of an instant in local time.
toDateString(date) == (date + zone) \div SlotsPerDay

isToday(date, clock) == toDateString(date) = toDateString(clock)

\* `${dateString} 00:00:00` and `${dateString} 23:59:59` as instants.
dayStart(dateString) == dateString * SlotsPerDay
dayEnd(dateString) == dateString * SlotsPerDay + (SlotsPerDay - 2)

\* ------------------------------------------------------------- calendar
\* Calendar days are counted from 1970-01-01 (day 0, a Thursday); months
\* are counted from 0 as Date.prototype.getMonth does.
IsLeap(y) == (y % 4 = 0 /\ y % 100 # 0) \/ y % 400 = 0

DaysInYear(y) == IF IsLeap(y) THEN 366 ELSE 365

DaysInMonth(y, m) ==
  IF m = 1 THEN (IF IsLeap(y) THEN 29 ELSE 28)
  ELSE IF m \in {3, 5, 8, 10} THEN 30 ELSE 31

\* The day of January 1st of year y.
RECURSIVE YearStart(_)
YearStart(y) ==
  IF y = 1970 THEN 0
  ELSE IF y > 1970 THEN YearStart(y - 1) + DaysInYear(y - 1)
  ELSE YearStart(y + 1) - DaysInYear(y)

\* The day of the 1st of month m of year y.
RECURSIVE MonthStart(_, _)
MonthStart(y, m) ==
  IF m = 0 THEN YearStart(y) ELSE MonthStart(y, m - 1) + DaysInMonth(y, m - 1)

RECURSIVE YearFrom(_, _)
YearFrom(day, y) ==
  IF day < YearStart(y) THEN YearFrom(day, y - 1)
  ELSE IF day >= YearStart(y + 1) THEN YearFrom(day, y + 1)
  ELSE y

\* date.getFullYear(), date.getMonth(), date.getDate(), date.getDay()
getFullYear(date) == YearFrom(toDateString(date), 1970)

getMonth(date) ==
  LET y == getFullYear(date)
      day == toDateString(date)
  IN CHOOSE m \in 0..11 :
       /\ MonthStart(y, m) <= day
       /\ day < MonthStart(y, m) + DaysInMonth(y, m)

getDate(date) ==
  toDateString(date) - MonthStart(getFullYear(date), getMonth(date)) + 1

getDay(date) == (toDateString(date) + 4) % 7

\* new Date(y, m, d): the day it names; a month outside 0..11 carries into
\* the year and a day outside the month carries into the neighbouring months.
MakeDate(y, m, d) == MonthStart(y + (m \div 12), m % 12) + (d - 1)

\* The instant of the local day `day` at the local time of day of `date`.
AtTimeOf(day, date) ==
  (day * SlotsPerDay) + ((date + zone) % SlotsPerDay) - zone

\* newDate.setDate(newDate.getDate() + n)
setDate(date, d) ==
  AtTimeOf(MakeDate(getFullYear(date), getMonth(date), d), date)

\* newDate.setMonth(newDate.getMonth() + n)
setMonth(date, m) ==
  AtTimeOf(MakeDate(getFullYear(date), m, getDate(date)), date)

\* ------------------------------------------------------------- lists
Ids(list) == { list[i].id : i \in 1..Len(list) }

Count(list, rid) == Cardinality({ i \in 1..Len(list) : list[i].id = rid })

\* Insertion of e into a list sorted by created_at descending, after every
\* element the comparator does not order behind it (Array.prototype.sort is
\* stable).
RECURSIVE InsertSorted(_, _)
InsertSorted(list, e) ==
  IF list = << >> THEN << e >>
  ELSE IF e.created_at > Head(list).created_at THEN << e >> \o list
  ELSE << Head(list) >> \o InsertSorted(Tail(list), e)

\* list.sort((a, b) => new Date(b.created_at) - new Date(a.created_at))
RECURSIVE SortDesc(_)
SortDesc(list) ==
  IF list = << >> THEN << >>
  ELSE InsertSorted(SortDesc(SubSeq(list, 1, Len(list) - 1)), list[Len(list)])

RECURSIVE Filter(_, _)
Filter(list, rid) ==
  IF list = << >> THEN << >>
  ELSE IF Head(list).id # rid THEN << Head(list) >> \o Filter(Tail(list), rid)
  ELSE Filter(Tail(list), rid)

RemoveAt(s, i) == SubSeq(s, 1, i - 1) \o SubSeq(s, i + 1, Len(s))

\* Where the object at position k of the list is in
\* [row, ...list].sort(newest first): behind every element that is newer and
\* behind the elements of its own instant that the sort was given before it.
\* An object that is not in the list (0) is not in the result.
HeldAfterInsert(list, row, k) ==
  LET all == << row >> \o list
  IN IF k = 0 \/ k > Len(list) THEN 0
     ELSE Cardinality({ m \in 1..Len(all) :
                          all[m].created_at > all[k + 1].created_at })
          + Cardinality({ m \in 1..(k + 1) :
                            all[m].created_at = all[k + 1].created_at })

\* Where the object at position k of the list is in
\* list.filter(entry => entry.id !== rid): nowhere when it has the id.
HeldAfterFilter(list, rid, k) ==
  IF k = 0 \/ k > Len(list) THEN 0
  ELSE IF list[k].id = rid THEN 0
  ELSE Cardinality({ m \in 1..k : list[m].id # rid })

\* ------------------------------------------------------------- totals
\* x || 0 and x || 1 of JavaScript: null and 0 are falsy.
OrZero(x) == IF x = Null THEN 0 ELSE x[1]
OrOne(x) == IF x = Null THEN 1 ELSE IF x[1] = 0 THEN 1 ELSE x[1]

ZeroTotals == [calories |-> 0, protein |-> 0, carbs |-> 0, fats |-> 0]

\* The numbers of JavaScript are binary floating point numbers: a result is
\* rounded to the nearest number of MantissaBits significant bits (53 in
\* JavaScript), a tie to the one with the even mantissa.  Whole numbers up to
\* 2^MantissaBits are exact.
RECURSIVE Exponent(_)
Exponent(a) == IF a < 2^MantissaBits THEN 0 ELSE 1 + Exponent(a \div 2)

RoundMagnitude(a) ==
  LET e == Exponent(a)
      q == a \div 2^e
      r == a % 2^e
  IN IF e = 0 THEN a
     ELSE IF 2 * r > 2^e \/ (2 * r = 2^e /\ q % 2 = 1) THEN (q + 1) * 2^e
     ELSE q * 2^e

FRound(x) == IF x < 0 THEN 0 - RoundMagnitude(0 - x) ELSE RoundMagnitude(x)

\* a + b and a * b of JavaScript
FAdd(a, b) == FRound(a + b)
FMul(a, b) == FRound(a * b)

Reducer(acc, entry) ==
  [calories |-> FAdd(acc.calories, FMul(OrZero(entry.calories), OrOne(entry.quantity))),
   protein |-> FAdd(acc.protein, FMul(OrZero(entry.protein), OrOne(entry.quantity))),
   carbs |-> FAdd(acc.carbs, FMul(OrZero(entry.carbs), OrOne(entry.quantity))),
   fats |-> FAdd(acc.fats, FMul(OrZero(entry.fats), OrOne(entry.quantity)))]

RECURSIVE Reduce(_, _)
Reduce(list, acc) ==
  IF list = << >> THEN acc ELSE Reduce(Tail(list), Reducer(acc, Head(list)))

DailyTotals(list) == Reduce(list, ZeroTotals)

\* ------------------------------------------------------------- state
VARIABLES
  now,                 \* the wall clock, in slots
  db,                  \* the user's rows of the food_entries table
  nextId,              \* the next identity the table assigns
  mounted,             \* whether the entry view is mounted
  entries,             \* useState: the held entries
  loading,             \* useState: the loading flag
  error,               \* useState: the error message (NoError = null)
  displayedDate,       \* useState: the displayed date, an instant
  isEditModalOpen,     \* useState
  entryToEdit,         \* useState: << >> = null, << entry >> otherwise
  isDeleteConfirmOpen, \* useState
  itemIdToDelete,      \* useState: 0 = null
  dailyTotals,         \* useMemo over entries
  requests,            \* the remote calls of the view that are in flight
  channels,            \* the realtime channels not yet removed, oldest first
  timers,              \* pending setTimeout(() => setError(null), 5000)
  renderedToday,       \* isToday(displayedDate) as the list screen last rendered it
  entryToEditAt,       \* where in entries the object held in entryToEdit is (0: nowhere)
  last                 \* history: the step taken last

\* The summary view (SummaryDisplay.tsx).
VARIABLES
  summaryMounted,      \* whether the summary view is mounted
  weeklySummary,       \* useState: << >> = null, << summary >> otherwise
  monthlySummary,      \* useState: << >> = null, << summary >> otherwise
  loadingWeekly,       \* useState
  loadingMonthly,      \* useState
  summaryError,        \* useState error: the messages joined by "; "
  activeTab,           \* useState
  currentWeekDate,     \* useState: an instant
  currentMonthDate,    \* useState: an instant
  calls,               \* the fetchSummaries calls that have not returned
  renderedCurrent      \* isCurrentWeek() / isCurrentMonth() as the tab last rendered it

summaryVars == << summaryMounted, weeklySummary, monthlySummary, loadingWeekly,
                 loadingMonthly, summaryError, activeTab, currentWeekDate,
                 currentMonthDate, calls, renderedCurrent >>

\* The saved foods of the log page (SavedFoodManager.tsx).
VARIABLES
  savedDb,             \* the user's rows of the saved_foods table
  savedNextId,         \* the next identity the table assigns
  savedMounted,        \* whether the saved food manager is mounted
  savedFoods,          \* useState: the held saved foods, by name
  formData,            \* useState: the fields of the form
  showForm,            \* useState
  savedLoading,        \* useState loading
  saving,              \* useState
  savedError,          \* useState error (NoError = null)
  formMessage,         \* useState (NoMessage = null)
  editingFoodId,       \* useState: 0 = null
  isSavedDeleteOpen,   \* useState isDeleteConfirmOpen
  itemToDelete,        \* useState: 0 = null, the id otherwise
  savedRequests,       \* the remote calls of the manager that are in flight
  messageTimers        \* pending setTimeout(() => setFormMessage(null), 3000)

savedVars == << savedDb, savedNextId, savedMounted, savedFoods, formData,
               showForm, savedLoading, saving, savedError, formMessage,
               editingFoodId, isSavedDeleteOpen, itemToDelete, savedRequests,
               messageTimers >>

\* The log form (FoodEntryForm) and the form of the edit modal
\* (EditEntryForm).  The fields of a form are what the user has typed when
\* the form is submitted; they are an input of the submission.
VARIABLES
  logMounted,          \* whether the log form is mounted
  logLoading,          \* useState loading of the log form
  logMessage,          \* useState message of the log form (NoMessage = null)
  logRequests,         \* the inserts of the log form that are in flight
  logTimers,           \* pending setTimeout(() => setMessage(null), 5000)
  editLoading,         \* useState isLoading of the edit form
  editErrorMessage     \* useState errorMessage of the edit form

formVars == << logMounted, logLoading, logMessage, logRequests, logTimers,
              editLoading, editErrorMessage >>

\* The goals card (MacroGoalsCard) and the goals form (GoalsSettingsForm).
VARIABLES
  goalsDb,             \* the user's row of the user_goals table: << >> or << row >>
  goalsMounted,        \* whether the goals card is mounted
  userGoals,           \* useState of the card: << >> = null, << goals >> otherwise
  goalsLoading,        \* useState loading of the card
  goalsError,          \* useState error of the card (NoError = null)
  goalsCalls,          \* the fetchUserGoals calls that have not returned
  goalsFormOpen,       \* the isOpen prop of the goals form
  goalsFormLoading,    \* useState loading of the goals form
  goalsSaving,         \* useState saving of the goals form
  goalsMessage,        \* useState message of the goals form (NoMessage = null)
  goalsRequests,       \* the remote calls of the goals form that are in flight
  goalsTimers          \* pending setTimeout(() => onClose(), 1500)

goalsVars == << goalsDb, goalsMounted, userGoals, goalsLoading, goalsError,
               goalsCalls, goalsFormOpen, goalsFormLoading,
               goalsSaving, goalsMessage,
               goalsRequests, goalsTimers >>

\* The totals computation on its own: the useMemo callback of the entry view
\* applied to a list, and its result.
VARIABLES
  totalsInput,         \* the list the callback is applied to
  totalsOutput         \* the totals it returned

calcVars == << totalsInput, totalsOutput >>

\* The form of the edit modal on its own (EditEntryForm): the entry it is
\* given, the text of its fields and what it hands to onSave.  Numbers are
\* counted in hundredths here, a text of a number is << whole part,
\* hundredths >> and the empty text is << >>.
VARIABLES
  editEntry,           \* the entry prop
  editFields,          \* useState of the six fields: << >> before the form is rendered
  editSaved            \* << >>, or << updatedData >> once onSave was called

roundVars == << editEntry, editFields, editSaved >>

\* The state of the views other than the daily entry view.
otherViews == << summaryVars, savedVars, formVars, goalsVars, calcVars,
                    roundVars >>

\* The state of the views other than the summary view and the entry view.
besideSummary == << savedVars, formVars, goalsVars, calcVars,
                    roundVars >>

\* The state of the views other than the saved foods and the entry view.
besideSaved == << summaryVars, formVars, goalsVars, calcVars,
                    roundVars >>

\* The state of the views other than the forms and the entry view.
besideForms == << summaryVars, savedVars, goalsVars, calcVars,
                    roundVars >>

\* The state of the views other than the goals and the entry view.
besideGoals == << summaryVars, savedVars, formVars, calcVars,
                    roundVars >>

\* The state of the views beside the totals computation on its own.
besideCalc == << summaryVars, savedVars, formVars, goalsVars, roundVars >>

\* The state of the views beside the form of the edit modal on its own.
besideRound == << summaryVars, savedVars, formVars, goalsVars, calcVars >>

\* The state of the daily entry view and of the food_entries table.
listVars == << db, nextId, mounted, entries, loading, error, displayedDate,
              isEditModalOpen, entryToEdit, isDeleteConfirmOpen,
              itemIdToDelete, dailyTotals, requests, channels, timers,
              renderedToday, entryToEditAt >>

vars == << now, zone, db, nextId, mounted, entries, loading, error, displayedDate,
           isEditModalOpen, entryToEdit, isDeleteConfirmOpen, itemIdToDelete,
           dailyTotals, requests, channels, timers, renderedToday,
           entryToEditAt, last, otherViews >>

\* op: the step; id: the row it is about (for a load response, the number of
\* entries held before it); day: the day of the row or of the load; cur: the
\* channel of an event is the one of the running effect; data: the rows a load
\* returned; seen: the ids merged while that load was in flight.
Step(op, rid, day, cur, data, seen) ==
  [op |-> op, id |-> rid, day |-> day, cur |-> cur, data |-> data, seen |-> seen]

\* What the component renders: the loading text, the error text or the list
\* with its buttons and modals.
Screen ==
  IF loading THEN "loading" ELSE IF error # NoError THEN "error" ELSE "list"

EditModalRendered ==
  mounted /\ Screen = "list" /\ isEditModalOpen /\ entryToEdit # << >>

DeleteModalRendered == mounted /\ Screen = "list" /\ isDeleteConfirmOpen

\* ------------------------------------------------------------- backend
\* The rows of the table in a set, as a list in identity order.
RECURSIVE AsList(_)
AsList(rows) ==
  IF rows = {} THEN << >>
  ELSE LET r == CHOOSE x \in rows : \A y \in rows : x.id <= y.id
       IN << r >> \o AsList(rows \ {r})

\* .gte('created_at', dayStart).lte('created_at', dayEnd)
\* .order('created_at', { ascending: false }): the lists the backend may
\* return, which orders rows of equal created_at either way.
RECURSIVE Query(_, _)
Query(rows, dateString) ==
  LET hits == { r \in rows : /\ r.created_at >= dayStart(dateString)
                             /\ r.created_at <= dayEnd(dateString) }
      newest == { r \in hits : \A x \in hits : r.created_at >= x.created_at }
  IN IF hits = {} THEN { << >> }
     ELSE UNION { { << r >> \o rest : rest \in Query(hits \ {r}, dateString) } :
                  r \in newest }

\* Number(formData.x) || 0 of the log form.
InsertData(f) ==
  [calories |-> << OrZero(f.calories) >>, protein |-> << OrZero(f.protein) >>,
   carbs |-> << OrZero(f.carbs) >>, fats |-> << OrZero(f.fats) >>,
   quantity |-> << OrOne(f.quantity) >>]

\* createTimestampForDate(selectedDate): the selected day, `back` days before
\* today, at the time of day the clock shows.
createTimestampForDate(back, clock) == clock - back * SlotsPerDay

Patched(row, f) ==
  [row EXCEPT !.calories = f.calories, !.protein = f.protein, !.carbs = f.carbs,
              !.fats = f.fats, !.quantity = f.quantity]

\* ------------------------------------------------------------- requests
\* match: the columns the filters of the request compare for equality.
LoadRequest(date) ==
  [kind |-> "load", date |-> formatDate(date), id |-> 0, patch |-> << >>,
   state |-> "sent", data |-> << >>, seen |-> {}, match |-> {"user_id"}]

DeleteRequest(rid) ==
  [kind |-> "delete", date |-> 0, id |-> rid, patch |-> << >>,
   state |-> "sent", data |-> << >>, seen |-> {}, match |-> {"id"}]

UpdateRequest(rid, f) ==
  [kind |-> "update", date |-> 0, id |-> rid, patch |-> << f >>,
   state |-> "sent", data |-> << >>, seen |-> {},
   match |-> {"id", "user_id"}]

Loads == { i \in 1..Len(requests) : requests[i].kind = "load" }

Leaving == { i \in 1..Len(channels) : channels[i].leaving }

\* ------------------------------------------------------------- effects
\* fetchEntries up to its await: setLoading(true); setError(null); the query
\* is sent.
FetchEntriesStart(date) ==
  /\ loading' = TRUE
  /\ error' = NoError
  /\ requests' = Append(requests, LoadRequest(date))

\* supabase.removeChannel(channel), called and not awaited: the channel is
\* leaving until the removal completes.
Cleanup(chs) == [i \in 1..Len(chs) |-> [chs[i] EXCEPT !.leaving = TRUE]]

\* The realtime effect: the cleanup of the previous run, then a new channel
\* whose handler closes over the displayed date.
Subscribe(chs, date) ==
  Append(Cleanup(chs), [date |-> date, leaving |-> FALSE, queue |-> << >>])

\* Both effects run again (the session or the displayed date changed).
RunEffects(date) ==
  /\ Len(requests) < MaxInFlight
  /\ Cardinality(Leaving) < MaxLeaving
  /\ FetchEntriesStart(date)
  /\ channels' = Subscribe(channels, date)

Totals == dailyTotals' = DailyTotals(entries')

\* ------------------------------------------------------------- summary view
\* The days on which the summary view is opened: 1970-01-31, a Saturday and
\* the last day of a month that is followed by a shorter one, and 1970-03-31.
StartDays == { 30, 89 }

\* The default the view holds when the backend returns no row.
ZeroSummary ==
  [entry_count |-> 0, days_logged |-> 0, total_calories |-> 0,
   total_protein |-> 0, total_carbs |-> 0, total_fats |-> 0]

\* What get_weekly_summary and get_monthly_summary can return: no row, or
\* one row of aggregates.
SummaryRows ==
  { << >>,
    << [entry_count |-> 3, days_logged |-> 2, total_calories |-> 600,
        total_protein |-> 40, total_carbs |-> 0, total_fats |-> 0] >> }

\* data && data.length > 0 ? data[0] : { entry_count: 0, ... }
SummaryOrNull(data) ==
  IF Len(data) > 0 THEN << data[1] >> ELSE << >>

SummaryOrZero(data) ==
  IF Len(data) > 0 THEN << data[1] >> ELSE << ZeroSummary >>

\* The parameters of the two remote calls of fetchSummaries, and the call
\* that is awaited.
SummaryCall(weekTargetDate, monthTargetDate) ==
  [weekDateStr |-> formatDate(weekTargetDate),
   monthYear |-> getFullYear(monthTargetDate),
   monthNum |-> getMonth(monthTargetDate) + 1,
   awaiting |-> "weekly"]

\* fetchSummaries up to its first await.
FetchSummariesStart(weekTargetDate, monthTargetDate) ==
  /\ Len(calls) < MaxCalls
  /\ loadingWeekly' = TRUE
  /\ loadingMonthly' = TRUE
  /\ summaryError' = << >>
  /\ calls' = Append(calls, SummaryCall(weekTargetDate, monthTargetDate))

\* new Date(y, m, d - date.getDay()): the Sunday on or before the date.
StartOfWeek(date) ==
  MakeDate(getFullYear(date), getMonth(date), getDate(date) - getDay(date))

\* The rows the backend returns for the parameters of a call: aggregates of
\* the week of p_target_date, named by week_start_display, and of the month
\* p_year, p_month, named by month_display.
WeeklyResponse(call) ==
  << [entry_count |-> 3, days_logged |-> 2, total_calories |-> 600,
      total_protein |-> 40, total_carbs |-> 0, total_fats |-> 0,
      week_start_display |-> StartOfWeek(dayStart(call.weekDateStr))] >>

MonthlyResponse(call) ==
  << [entry_count |-> 3, days_logged |-> 2, total_calories |-> 600,
      total_protein |-> 40, total_carbs |-> 0, total_fats |-> 0,
      month_display |-> << call.monthYear, call.monthNum >>] >>

\* isCurrentWeek() and isCurrentMonth() at the instant `clock`, for the
\* week date and the month date the view holds.
isCurrentWeek(clock, weekDate) == StartOfWeek(clock) = StartOfWeek(weekDate)

isCurrentMonth(clock, monthDate) ==
  /\ getFullYear(clock) = getFullYear(monthDate)
  /\ getMonth(clock) = getMonth(monthDate)

\* The months of the calendar in one count.
MonthIndex(date) == getFullYear(date) * 12 + getMonth(date)

\* The view has never been opened.
SummaryUnmounted ==
  /\ summaryMounted = FALSE
  /\ weeklySummary = << >>
  /\ monthlySummary = << >>
  /\ loadingWeekly = TRUE
  /\ loadingMonthly = TRUE
  /\ summaryError = << >>
  /\ activeTab = "weekly"
  /\ currentWeekDate = 0
  /\ currentMonthDate = 0
  /\ calls = << >>
  /\ renderedCurrent = FALSE

\* ------------------------------------------------------------- saved foods
NoMessage == "none"

\* The names a user gives to saved foods, in the order of localeCompare.
FoodNames == << "apple", "bread" >>

NameRank(name) == CHOOSE k \in 1..Len(FoodNames) : FoodNames[k] = name

\* A number input satisfies min when it is blank or not below it.
MinOk(x, min) == IF x = Null THEN TRUE ELSE x[1] >= min

\* A number input satisfies max when it is blank or not above it.
MaxOk(x, max) == IF x = Null THEN TRUE ELSE x[1] <= max

\* The form with every field left blank.
BlankForm ==
  [food_name |-> "", calories |-> Null, protein |-> Null, carbs |-> Null,
   fats |-> Null]

\* What a user types into the form of a saved food: a name and calories, or
\* these and a negative protein.
SavedForms ==
  { [BlankForm EXCEPT !.food_name = FoodNames[k], !.calories = << 100 >>] :
      k \in 1..Len(FoodNames) }
  \cup { [BlankForm EXCEPT !.food_name = FoodNames[1], !.calories = << 100 >>,
                           !.protein = << 0 - 2 >>] }

\* Number(x) || 0 for a field that is blank or holds a number.
NumberOrZero(x) == IF x = Null THEN 0 ELSE x[1]

\* The required attributes of the name and calories inputs and min="0" of the
\* calories, protein, carbs and fats inputs.
SavedConstraintsValid(form) ==
  /\ form.food_name # ""
  /\ form.calories # Null /\ MinOk(form.calories, 0)
  /\ MinOk(form.protein, 0) /\ MinOk(form.carbs, 0) /\ MinOk(form.fats, 0)

\* !formData.food_name || formData.calories === '' || isNaN(...)
SavedFormRejected(form) == form.food_name = "" \/ form.calories = Null

foodDataToSave(form) ==
  [food_name |-> form.food_name,
   calories |-> << NumberOrZero(form.calories) >>,
   protein |-> << NumberOrZero(form.protein) >>,
   carbs |-> << NumberOrZero(form.carbs) >>,
   fats |-> << NumberOrZero(form.fats) >>]

SavedRow(rid, data) ==
  [id |-> rid, food_name |-> data.food_name, calories |-> data.calories,
   protein |-> data.protein, carbs |-> data.carbs, fats |-> data.fats]

\* The fields handleEditFood copies from a held saved food.
FormOf(food) ==
  [food_name |-> food.food_name, calories |-> food.calories,
   protein |-> food.protein, carbs |-> food.carbs, fats |-> food.fats]

\* Insertion of a food into a list sorted by name.
RECURSIVE InsertByName(_, _)
InsertByName(list, food) ==
  IF list = << >> THEN << food >>
  ELSE IF NameRank(Head(list).food_name) <= NameRank(food.food_name)
       THEN << Head(list) >> \o InsertByName(Tail(list), food)
       ELSE << food >> \o list

\* list.sort((a, b) => a.food_name.localeCompare(b.food_name))
RECURSIVE SortByName(_)
SortByName(list) ==
  IF list = << >> THEN << >>
  ELSE InsertByName(SortByName(SubSeq(list, 1, Len(list) - 1)), list[Len(list)])

\* select ... .eq('user_id', ...).order('food_name', { ascending: true })
SavedQuery(rows) == SortByName(AsList(rows))

\* The unique constraint on (user_id, food_name): a row other than rid
\* already has the name.
NameTaken(rows, rid, name) ==
  \E r \in rows : r.id # rid /\ r.food_name = name

\* state: "sent" until the backend has processed the request; result: what
\* the backend returned (the rows, or the error of the request).
SavedRequest(kind, rid, data, match) ==
  [kind |-> kind, id |-> rid, data |-> data, match |-> match,
   state |-> "sent", result |-> [status |-> "none", rows |-> << >>]]

\* What the backend returns for a request on saved_foods: the rows of a
\* fetch; for an insert the created row, or code 23505 when the user has the
\* name already; for an update the updated row, no row (.single() fails), or
\* code 23505 when another food of the user has the name.
SavedResult(rows, nextRid, req) ==
  IF req.kind = "fetch" THEN [status |-> "ok", rows |-> SavedQuery(rows)]
  ELSE IF req.kind = "insert"
  THEN IF NameTaken(rows, 0, req.data.food_name)
       THEN [status |-> "duplicate", rows |-> << >>]
       ELSE [status |-> "ok", rows |-> << SavedRow(nextRid, req.data) >>]
  ELSE IF req.kind = "update"
  THEN IF ~\E r \in rows : r.id = req.id
       THEN [status |-> "missing", rows |-> << >>]
       ELSE IF NameTaken(rows, req.id, req.data.food_name)
       THEN [status |-> "duplicate", rows |-> << >>]
       ELSE [status |-> "ok", rows |-> << SavedRow(req.id, req.data) >>]
  ELSE [status |-> "ok", rows |-> << >>]

\* The table after the backend has processed the request.
SavedApplied(rows, nextRid, req) ==
  IF req.kind = "fetch" \/ SavedResult(rows, nextRid, req).status # "ok"
  THEN rows
  ELSE { r \in rows : r.id # req.id } \cup
       { SavedResult(rows, nextRid, req).rows[k] :
           k \in 1..Len(SavedResult(rows, nextRid, req).rows) }

\* The manager has never been opened.
SavedUnmounted ==
  /\ savedDb = {}
  /\ savedNextId = 1
  /\ savedMounted = FALSE
  /\ savedFoods = << >>
  /\ formData = BlankForm
  /\ showForm = FALSE
  /\ savedLoading = FALSE
  /\ saving = FALSE
  /\ savedError = NoError
  /\ formMessage = NoMessage
  /\ editingFoodId = 0
  /\ isSavedDeleteOpen = FALSE
  /\ itemToDelete = 0
  /\ savedRequests = << >>
  /\ messageTimers = 0

\* ------------------------------------------------------------- totals on their own
\* The entries the computation is applied to: calories of 1 or of the first
\* whole number whose successor is not a floating point number, a protein
\* field that is blank or not, and a quantity.
TotalsFoods ==
  { [calories |-> << c >>, protein |-> p, carbs |-> Null, fats |-> << 0 >>,
     quantity |-> << q >>] :
      c \in {1, 2^MantissaBits}, p \in {Null, << 20 >>}, q \in {1, 2} }

TotalsEntries == { MkRow(0, 0, f) : f \in TotalsFoods }

\* The lists of at most MaxLen entries.
TotalsLists == UNION { [1..n -> TotalsEntries] : n \in 0..MaxLen }

\* The list with its elements in the order p.
Permuted(list, p) == [k \in 1..Len(list) |-> list[p[k]]]

\* The computation is not applied on its own.
CalcIdle ==
  /\ totalsInput = << >>
  /\ totalsOutput = ZeroTotals

\* ------------------------------------------------------------- edit form on its own
\* Entries the data model allows, their numbers in hundredths: whole and
\* fractional calories and quantities, macros absent, zero or fractional, a
\* name with and without a trailing space.
RoundEntries ==
  { [id |-> 1, food_name |-> name, calories |-> << cal >>, protein |-> p,
     carbs |-> Null, fats |-> f, quantity |-> << qty >>] :
      name \in {"apple", "apple "}, cal \in {0, 20000, 15050},
      p \in {Null, << 0 >>, << 2050 >>}, f \in {Null, << 30 >>},
      qty \in {100, 150, 50, 25} }

\* foodName.trim()
Trim(name) ==
  IF name = " " THEN "" ELSE IF name = "apple " THEN "apple" ELSE name

\* x.toString(): the decimal text of a number.
toString(x) == << x \div 100, x % 100 >>

\* parseFloat(text): the number the text denotes.
parseFloat(text) == text[1] * 100 + text[2]

\* parseInt(text, 10): the digits before the decimal point.
parseInt(text) == text[1] * 100

\* entry.x?.toString() || ''
TextOrEmpty(x) == IF x = Null THEN << >> ELSE toString(x[1])

\* text ? parseFloat(text) : null
FloatOrNull(text) == IF text = << >> THEN Null ELSE << parseFloat(text) >>

\* The useState initial values of the form.
EditFieldsOf(entry) ==
  [foodName |-> entry.food_name, calories |-> toString(entry.calories[1]),
   protein |-> TextOrEmpty(entry.protein), carbs |-> TextOrEmpty(entry.carbs),
   fats |-> TextOrEmpty(entry.fats), quantity |-> toString(entry.quantity[1])]

\* A number input with min and step attributes (in hundredths) is valid
\* when it is empty or its number is at least min and a whole number of
\* steps above it.
NumberInputValid(text, min, step) ==
  text = << >> \/ (parseFloat(text) >= min /\ (parseFloat(text) - min) % step = 0)

\* The constraints of the inputs: name, quantity and calories are required;
\* quantity min 0.1 step 0.1; calories min 0 (step 1); macros min 0 step 0.1.
EditInputsValid(fields) ==
  /\ fields.foodName # ""
  /\ fields.quantity # << >> /\ NumberInputValid(fields.quantity, 10, 10)
  /\ fields.calories # << >> /\ NumberInputValid(fields.calories, 0, 100)
  /\ NumberInputValid(fields.protein, 0, 10)
  /\ NumberInputValid(fields.carbs, 0, 10)
  /\ NumberInputValid(fields.fats, 0, 10)

\* The three checks of handleSubmit on the parsed fields.
EditFieldsRejected(fields) ==
  \/ parseInt(fields.calories) < 0
  \/ parseInt(fields.quantity) <= 0
  \/ Trim(fields.foodName) = ""

\* updatedData of handleSubmit.
updatedData(entry, fields) ==
  [id |-> entry.id, food_name |-> Trim(fields.foodName),
   calories |-> << parseInt(fields.calories) >>,
   protein |-> FloatOrNull(fields.protein), carbs |-> FloatOrNull(fields.carbs),
   fats |-> FloatOrNull(fields.fats),
   quantity |-> << parseInt(fields.quantity) >>]

\* The form is not rendered on its own.
RoundIdle ==
  /\ editEntry = << >>
  /\ editFields = << >>
  /\ editSaved = << >>

\* ------------------------------------------------------------- forms
\* What a user types into the log form or the edit form: the name (blank,
\* only a space, or a name), the calories (Null = blank or not a number) and
\* the quantity; the macros are left as in a food of Foods.
EntryForms ==
  { [food_name |-> name, calories |-> cal, protein |-> << 20 >>,
     carbs |-> Null, fats |-> Null, quantity |-> qty] :
      name \in {"", " ", "apple"},
      cal \in {Null, << 0 - 5 >>, << 0 >>, << 200 >>},
      qty \in {<< 0 >>, << 1 >>} }

\* Forms with a name and calories, whose quantity and macros are blank,
\* negative, zero or positive.
RowForms ==
  { [food_name |-> "apple", calories |-> << 200 >>, protein |-> p,
     carbs |-> Null, fats |-> f, quantity |-> qty] :
      p \in {Null, << 0 - 5 >>, << 0 >>, << 20 >>}, f \in {Null, << 0 - 1 >>},
      qty \in {Null, << 0 - 1 >>, << 0 >>, << 2 >>} }

\* The numeric fields of a form.
FoodOf(form) ==
  [calories |-> form.calories, protein |-> form.protein, carbs |-> form.carbs,
   fats |-> form.fats, quantity |-> form.quantity]

\* A log form whose calories input has no min attribute.
LogConstraintsNoMin(form) ==
  /\ form.food_name # ""
  /\ form.quantity # Null /\ MinOk(form.quantity, 1)
  /\ form.calories # Null
  /\ MinOk(form.protein, 0) /\ MinOk(form.carbs, 0) /\ MinOk(form.fats, 0)

\* The constraints of the inputs of the log form: the name and the calories
\* are required, the quantity is required and at least its min (0.01; among
\* whole numbers, at least 1), no number is negative.
LogConstraintsValid(form) ==
  /\ form.food_name # ""
  /\ form.quantity # Null /\ MinOk(form.quantity, 1)
  /\ form.calories # Null /\ MinOk(form.calories, 0)
  /\ MinOk(form.protein, 0) /\ MinOk(form.carbs, 0) /\ MinOk(form.fats, 0)

\* !formData.food_name || formData.calories === '' || isNaN(...)
LogFormRejected(form) == form.food_name = "" \/ form.calories = Null

\* An edit form whose macro inputs have no min attribute.
EditConstraintsNoMacroMin(form) ==
  /\ form.food_name # ""
  /\ form.quantity # Null /\ MinOk(form.quantity, 1)
  /\ form.calories # Null /\ MinOk(form.calories, 0)

\* The constraints of the inputs of the edit form (the min of the quantity is
\* 0.1; among whole numbers, at least 1).
EditConstraintsValid(form) ==
  /\ form.food_name # ""
  /\ form.quantity # Null /\ MinOk(form.quantity, 1)
  /\ form.calories # Null /\ MinOk(form.calories, 0)
  /\ MinOk(form.protein, 0) /\ MinOk(form.carbs, 0) /\ MinOk(form.fats, 0)

\* The three checks of EditEntryForm.handleSubmit.
EditFormRejected(form) ==
  \/ IF form.calories = Null THEN TRUE ELSE form.calories[1] < 0
  \/ IF form.quantity = Null THEN TRUE ELSE form.quantity[1] <= 0
  \/ Trim(form.food_name) = ""

\* The log form and the edit form are not rendered.
FormsUnmounted ==
  /\ logMounted = FALSE
  /\ logLoading = FALSE
  /\ logMessage = NoMessage
  /\ logRequests = << >>
  /\ logTimers = 0
  /\ editLoading = FALSE
  /\ editErrorMessage = NoMessage

\* ------------------------------------------------------------- goals
DefaultGoals ==
  [daily_calories_goal |-> << 2000 >>, daily_protein_goal |-> << 150 >>,
   daily_carbs_goal |-> << 250 >>, daily_fats_goal |-> << 65 >>]

\* What a user types into the goals form (Null = blank or not a number):
\* the defaults of the form with one field changed to a blank, to a value
\* below, inside or above its range, or to a value off its step.
GoalsForms ==
  { [DefaultGoals EXCEPT !.daily_calories_goal = x] : x \in {Null, << 450 >>, << 1800 >>, << 1825 >>, << 10050 >>} }
  \cup { [DefaultGoals EXCEPT !.daily_protein_goal = x] : x \in {Null, << 0 - 5 >>, << 150 >>, << 505 >>} }
  \cup { [DefaultGoals EXCEPT !.daily_carbs_goal = x] : x \in {Null, << 0 - 10 >>, << 250 >>, << 1010 >>} }
  \cup { [DefaultGoals EXCEPT !.daily_fats_goal = x] : x \in {Null, << 0 - 5 >>, << 65 >>, << 305 >>} }

\* A number input satisfies step when it is blank or min plus a multiple of it.
StepOk(x, min, step) ==
  IF x = Null THEN TRUE ELSE (x[1] - min) % step = 0

\* The attributes of one input of the goals form: required, min, max, step.
GoalInputValid(x, min, max, step) ==
  x # Null /\ MinOk(x, min) /\ MaxOk(x, max) /\ StepOk(x, min, step)

GoalsConstraintsValid(form) ==
  /\ GoalInputValid(form.daily_calories_goal, 500, 10000, 50)
  /\ GoalInputValid(form.daily_protein_goal, 0, 500, 5)
  /\ GoalInputValid(form.daily_carbs_goal, 0, 1000, 10)
  /\ GoalInputValid(form.daily_fats_goal, 0, 300, 5)

\* x < min || x > max of JavaScript, where x = parseFloat(field): both
\* comparisons are false for NaN.
OutOfRange(x, min, max) ==
  IF x = Null THEN FALSE ELSE x[1] < min \/ x[1] > max

\* The four range checks of GoalsSettingsForm.handleSubmit.
GoalsFormRejected(form) ==
  \/ OutOfRange(form.daily_calories_goal, 500, 10000)
  \/ OutOfRange(form.daily_protein_goal, 0, 500)
  \/ OutOfRange(form.daily_carbs_goal, 0, 1000)
  \/ OutOfRange(form.daily_fats_goal, 0, 300)

\* A fetchUserGoals call at its first await (the select) or at its second
\* (the insert of the defaults).
GoalsCall(stage) ==
  [stage |-> stage, state |-> "sent", status |-> "none", row |-> << >>]

\* A call of the goals form: the select of fetchCurrentGoals ("current") or
\* the upsert of handleSubmit.
GoalsRequest(kind, data) ==
  [kind |-> kind, data |-> data, state |-> "sent", row |-> << >>]

\* The goals card and the goals form are not rendered, and the user has no
\* goals row yet.
GoalsUnmounted ==
  /\ goalsDb = << >>
  /\ goalsMounted = FALSE
  /\ userGoals = << >>
  /\ goalsLoading = FALSE
  /\ goalsError = NoError
  /\ goalsCalls = << >>
  /\ goalsFormOpen = FALSE
  /\ goalsFormLoading = FALSE
  /\ goalsSaving = FALSE
  /\ goalsMessage = NoMessage
  /\ goalsRequests = << >>
  /\ goalsTimers = 0

\* ------------------------------------------------------------- initial state
\* The view is mounted: the useState initial values, then both effects.
Init ==
  /\ now = 0
  /\ zone \in Zones
  /\ db = {}
  /\ nextId = 1
  /\ mounted = TRUE
  /\ entries = << >>
  /\ loading = TRUE
  /\ error = NoError
  /\ displayedDate = 0
  /\ isEditModalOpen = FALSE
  /\ entryToEdit = << >>
  /\ isDeleteConfirmOpen = FALSE
  /\ itemIdToDelete = 0
  /\ dailyTotals = ZeroTotals
  /\ requests = << LoadRequest(0) >>
  /\ channels = << [date |-> 0, leaving |-> FALSE, queue |-> << >>] >>
  /\ timers = 0
  /\ renderedToday = FALSE
  /\ entryToEditAt = 0
  /\ last = Step("init", 0, 0, FALSE, << >>, {})
  /\ SummaryUnmounted
  /\ SavedUnmounted
  /\ FormsUnmounted
  /\ GoalsUnmounted
  /\ CalcIdle
  /\ RoundIdle

\* ------------------------------------------------------------- environment
\* What a step of the entry view leaves of what is on the screen.  When the
\* step changes the state of the component (render: a setter was given a
\* value that Object.is tells from the one held), the component renders
\* again and the Next and Today buttons follow isToday(displayedDate) as of
\* that instant; otherwise they stay as they were rendered.  The state of the
\* form of the edit modal lasts as long as the modal stays rendered.  The
\* object held in entryToEdit is at position `at` of the entries the step
\* leaves (0 when the step has put other objects there).
ListFrame(render, at) ==
  /\ entryToEditAt' = IF entryToEdit' = << >> THEN 0 ELSE at
  /\ renderedToday' =
       IF render
       THEN /\ mounted' /\ ~loading' /\ error' = NoError
            /\ isToday(displayedDate', now')
       ELSE renderedToday
  /\ LET kept == /\ EditModalRendered
                 /\ mounted' /\ ~loading' /\ error' = NoError
                 /\ isEditModalOpen' /\ entryToEdit' # << >>
     IN /\ editLoading' = (kept /\ editLoading)
        /\ editErrorMessage' = IF kept THEN editErrorMessage ELSE NoMessage
  /\ UNCHANGED << besideForms, logMounted, logLoading, logMessage,
                  logRequests, logTimers >>

Tick ==
  /\ now < MaxNow
  /\ now' = now + 1
  /\ last' = Step("tick", 0, 0, FALSE, << >>, {})
  /\ UNCHANGED << zone, db, nextId, mounted, entries, loading, error, displayedDate,
                  isEditModalOpen, entryToEdit, isDeleteConfirmOpen,
                  itemIdToDelete, dailyTotals, requests, channels, timers >>
  /\ ListFrame(FALSE, entryToEditAt)

\* The inserts of the log form the backend has not processed yet.
LogInsertsSent ==
  Cardinality({ i \in 1..Len(logRequests) : logRequests[i].state = "sent" })

\* The log form inserts a row for the selected day: the form stamped the row
\* at the instant `at` before its await, the backend stores it now and
\* notifies every channel it still knows.
InsertEntry(f, back, at) ==
  /\ nextId + LogInsertsSent <= MaxRows
  /\ at >= 0 /\ at <= now
  /\ LET row == MkRow(nextId, createTimestampForDate(back, at), InsertData(f))
     IN /\ db' = db \cup {row}
        /\ channels' = [i \in 1..Len(channels) |->
                          [channels[i] EXCEPT !.queue = Append(@, row)]]
        /\ last' = Step("insert", 0, 0, FALSE, << >>, {})
  /\ nextId' = nextId + 1
  /\ UNCHANGED << now, zone, mounted, entries, loading, error, displayedDate,
                  isEditModalOpen, entryToEdit, isDeleteConfirmOpen,
                  itemIdToDelete, dailyTotals, requests, timers >>
  /\ ListFrame(FALSE, entryToEditAt)

\* The backend evaluates the query of a load.
ServerFetch(i) ==
  /\ requests[i].kind = "load"
  /\ requests[i].state = "sent"
  /\ \E data \in Query(db, requests[i].date) :
       requests' = [requests EXCEPT ![i].state = "answered", ![i].data = data]
  /\ last' = Step("query", 0, 0, FALSE, << >>, {})
  /\ UNCHANGED << now, zone, db, nextId, mounted, entries, loading, error,
                  displayedDate, isEditModalOpen, entryToEdit,
                  isDeleteConfirmOpen, itemIdToDelete, dailyTotals, channels,
                  timers >>
  /\ ListFrame(FALSE, entryToEditAt)

\* What the backend returns for an update: the patched row of the id, or
\* nothing when the table holds no such row.
Updated(rows, rid, f) ==
  IF \E r \in rows : r.id = rid
  THEN << Patched(CHOOSE r \in rows : r.id = rid, f) >> ELSE << >>

\* The table after a delete or an update of the backend.
Applied(rows, req) ==
  IF req.kind = "delete" THEN { r \in rows : r.id # req.id }
  ELSE { r \in rows : r.id # req.id } \cup
       { Updated(rows, req.id, req.patch[1])[k] :
           k \in 1..Len(Updated(rows, req.id, req.patch[1])) }

\* The backend applies a delete or an update; its response is on the way.
\* What a view that is gone has sent is applied as well, and nobody waits
\* for the response.
ServerApply(i) ==
  /\ requests[i].kind \in {"delete", "update"}
  /\ requests[i].state \in {"sent", "orphan"}
  /\ db' = Applied(db, requests[i])
  /\ requests' =
       IF requests[i].state = "orphan" THEN RemoveAt(requests, i)
       ELSE [requests EXCEPT
               ![i].state = "answered",
               ![i].data = IF requests[i].kind = "update"
                           THEN Updated(db, requests[i].id, requests[i].patch[1])
                           ELSE << >>]
  /\ last' = Step("apply", requests[i].id, 0, FALSE, << >>, {})
  /\ UNCHANGED << now, zone, nextId, mounted, entries, loading, error,
                  displayedDate, isEditModalOpen, entryToEdit,
                  isDeleteConfirmOpen, itemIdToDelete, dailyTotals, channels,
                  timers >>
  /\ ListFrame(FALSE, entryToEditAt)

\* The removal of a channel completes.
RemoveChannelDone(i) ==
  /\ channels[i].leaving
  /\ channels' = RemoveAt(channels, i)
  /\ last' = Step("removed", 0, 0, FALSE, << >>, {})
  /\ UNCHANGED << now, zone, db, nextId, mounted, entries, loading, error,
                  displayedDate, isEditModalOpen, entryToEdit,
                  isDeleteConfirmOpen, itemIdToDelete, dailyTotals, requests,
                  timers >>
  /\ ListFrame(FALSE, entryToEditAt)

\* ------------------------------------------------------------- realtime
\* isToday(displayedDate) && formatDate(newEntryDate) === formatDate(displayedDate)
ShouldMergeNotToday(date, row, clock) ==
  ~isToday(date, clock) /\ formatDate(row.created_at) = formatDate(date)

ShouldMerge(date, row, clock) ==
  isToday(date, clock) /\ formatDate(row.created_at) = formatDate(date)

\* A handler that appends the new entry without sorting.
InsertLocalAppends(list, row) == list \o << row >>

\* [payload.new, ...currentEntries].sort(newest first)
InsertLocal(list, row) == SortDesc(<< row >> \o list)

\* The ids a load in flight has seen merged for its day (history).
NoteMerged(reqs, row) ==
  [i \in 1..Len(reqs) |->
     IF reqs[i].kind = "load" /\ reqs[i].date = formatDate(row.created_at)
     THEN [reqs[i] EXCEPT !.seen = @ \cup {row.id}] ELSE reqs[i]]

\* A channel hands its next INSERT event to its handler.
Deliver(i) ==
  /\ channels[i].queue # << >>
  /\ LET row == Head(channels[i].queue)
         merge == mounted /\ ShouldMerge(channels[i].date, row, now)
     IN /\ channels' = [channels EXCEPT ![i].queue = Tail(@)]
        /\ entries' = IF merge THEN InsertLocal(entries, row) ELSE entries
        /\ requests' = IF merge THEN NoteMerged(requests, row) ELSE requests
        /\ last' = Step("deliver", row.id, formatDate(row.created_at),
                        ~channels[i].leaving, << >>, {})
  /\ Totals
  /\ UNCHANGED << now, zone, db, nextId, mounted, loading, error, displayedDate,
                  isEditModalOpen, entryToEdit, isDeleteConfirmOpen,
                  itemIdToDelete, timers >>
  /\ ListFrame(mounted /\ ShouldMerge(channels[i].date, Head(channels[i].queue), now),
               IF mounted /\ ShouldMerge(channels[i].date, Head(channels[i].queue), now)
               THEN HeldAfterInsert(entries, Head(channels[i].queue), entryToEditAt)
               ELSE entryToEditAt)

\* ------------------------------------------------------------- load
\* setEntries(data || []) and the finally block.
CommitKeepsOld(list, data) == data \o list

Commit(list, data) == data

LoadOk(i) ==
  /\ requests[i].kind = "load"
  /\ requests[i].state = "answered"
  /\ entries' = Commit(entries, requests[i].data)
  /\ loading' = FALSE
  /\ requests' = RemoveAt(requests, i)
  /\ last' = Step("loadOk", Len(entries), requests[i].date, FALSE,
                  requests[i].data, requests[i].seen)
  /\ Totals
  /\ UNCHANGED << now, zone, db, nextId, mounted, error, displayedDate,
                  isEditModalOpen, entryToEdit, isDeleteConfirmOpen,
                  itemIdToDelete, channels, timers >>
  /\ ListFrame(TRUE, 0)

\* A catch block without the finally block: the loading flag stays.
LoadFailKeepsLoading(i) ==
  /\ requests[i].kind = "load"
  /\ error' = "load"
  /\ entries' = << >>
  /\ requests' = RemoveAt(requests, i)
  /\ last' = Step("loadFail", Len(entries), requests[i].date, FALSE, << >>, {})
  /\ Totals
  /\ UNCHANGED << now, zone, db, nextId, mounted, loading, displayedDate,
                  isEditModalOpen, entryToEdit, isDeleteConfirmOpen,
                  itemIdToDelete, channels, timers >>
  /\ ListFrame(TRUE, 0)

\* The catch block and the finally block.
LoadFail(i) ==
  /\ requests[i].kind = "load"
  /\ error' = "load"
  /\ entries' = << >>
  /\ loading' = FALSE
  /\ requests' = RemoveAt(requests, i)
  /\ last' = Step("loadFail", Len(entries), requests[i].date, FALSE, << >>, {})
  /\ Totals
  /\ UNCHANGED << now, zone, db, nextId, mounted, displayedDate, isEditModalOpen,
                  entryToEdit, isDeleteConfirmOpen, itemIdToDelete, channels,
                  timers >>
  /\ ListFrame(TRUE, 0)

\* ------------------------------------------------------------- navigation
\* The buttons exist only on the list screen.
CanClick == mounted /\ Screen = "list"

ChangeDate(date, op) ==
  /\ displayedDate' = date
  /\ RunEffects(date)
  /\ last' = Step(op, 0, 0, FALSE, << >>, {})
  /\ UNCHANGED << now, zone, db, nextId, mounted, entries, isEditModalOpen,
                  entryToEdit, isDeleteConfirmOpen, itemIdToDelete,
                  dailyTotals, timers >>
  /\ ListFrame(TRUE, entryToEditAt)

goToPreviousDay ==
  /\ CanClick
  /\ formatDate(displayedDate) > 0 - MaxBack
  /\ ChangeDate(displayedDate - SlotsPerDay, "previousDay")

\* The button is rendered disabled while the displayed date is today.
goToNextDay ==
  /\ CanClick
  /\ ~renderedToday
  /\ ChangeDate(displayedDate + SlotsPerDay, "nextDay")

\* setDisplayedDate(new Date()); the button is rendered on other days only.
goToToday ==
  /\ CanClick
  /\ ~renderedToday
  /\ ChangeDate(now, "today")

\* ------------------------------------------------------------- delete
requestDeleteEntry(i) ==
  /\ CanClick
  /\ itemIdToDelete' = entries[i].id
  /\ isDeleteConfirmOpen' = TRUE
  /\ error' = NoError
  /\ last' = Step("requestDelete", 0, 0, FALSE, << >>, {})
  /\ UNCHANGED << now, zone, db, nextId, mounted, entries, loading, displayedDate,
                  isEditModalOpen, entryToEdit, dailyTotals, requests,
                  channels, timers >>
  /\ ListFrame(\/ itemIdToDelete # entries[i].id
               \/ ~isDeleteConfirmOpen
               \/ error # NoError,
               entryToEditAt)

\* A cancel that closes the modal and keeps the pending id.
cancelDeleteKeepsId ==
  /\ DeleteModalRendered
  /\ isDeleteConfirmOpen' = FALSE
  /\ last' = Step("cancelDelete", 0, 0, FALSE, << >>, {})
  /\ UNCHANGED << now, zone, db, nextId, mounted, entries, loading, error,
                  displayedDate, isEditModalOpen, entryToEdit, itemIdToDelete,
                  dailyTotals, requests, channels, timers >>
  /\ ListFrame(TRUE, entryToEditAt)

\* setIsDeleteConfirmOpen(false); setItemIdToDelete(null)
cancelDelete ==
  /\ DeleteModalRendered
  /\ isDeleteConfirmOpen' = FALSE
  /\ itemIdToDelete' = 0
  /\ last' = Step("cancelDelete", 0, 0, FALSE, << >>, {})
  /\ UNCHANGED << now, zone, db, nextId, mounted, entries, loading, error,
                  displayedDate, isEditModalOpen, entryToEdit, dailyTotals,
                  requests, channels, timers >>
  /\ ListFrame(TRUE, entryToEditAt)

\* The held entries when the remote delete is sent.
OnDeleteSentOptimistic(list, rid) == Filter(list, rid)

OnDeleteSent(list, rid) == list

\* confirmDeleteEntry up to its await.
confirmDeleteEntry ==
  /\ DeleteModalRendered
  /\ itemIdToDelete # 0
  /\ Len(requests) < MaxInFlight
  /\ timers < MaxTimers
  /\ isDeleteConfirmOpen' = FALSE
  /\ itemIdToDelete' = 0
  /\ requests' = Append(requests, DeleteRequest(itemIdToDelete))
  /\ entries' = OnDeleteSent(entries, itemIdToDelete)
  /\ last' = Step("confirmDelete", itemIdToDelete, 0, FALSE, << >>, {})
  /\ Totals
  /\ UNCHANGED << now, zone, db, nextId, mounted, loading, error, displayedDate,
                  isEditModalOpen, entryToEdit, channels, timers >>
  /\ ListFrame(TRUE, entryToEditAt)

\* The remote delete returned without an error: the entry is filtered out,
\* and with it the object the edit modal may hold.
DeleteOk(i) ==
  /\ requests[i].kind = "delete"
  /\ requests[i].state = "answered"
  /\ entries' = Filter(entries, requests[i].id)
  /\ requests' = RemoveAt(requests, i)
  /\ last' = Step("deleteOk", requests[i].id, 0, FALSE, << >>, {})
  /\ Totals
  /\ UNCHANGED << now, zone, db, nextId, mounted, loading, error, displayedDate,
                  isEditModalOpen, entryToEdit, isDeleteConfirmOpen,
                  itemIdToDelete, channels, timers >>
  /\ ListFrame(TRUE, HeldAfterFilter(entries, requests[i].id, entryToEditAt))

\* The remote delete failed: the catch block, which also arms a timer.
DeleteFail(i) ==
  /\ requests[i].kind = "delete"
  /\ requests[i].state # "orphan"
  /\ error' = "delete"
  /\ timers' = timers + 1
  /\ requests' = RemoveAt(requests, i)
  /\ last' = Step("deleteFail", requests[i].id, 0, FALSE, << >>, {})
  /\ UNCHANGED << now, zone, db, nextId, mounted, entries, loading, displayedDate,
                  isEditModalOpen, entryToEdit, isDeleteConfirmOpen,
                  itemIdToDelete, dailyTotals, channels >>
  /\ ListFrame(error # "delete", entryToEditAt)

\* setTimeout(() => setError(null), 5000) fires.
ErrorTimeout ==
  /\ timers > 0
  /\ timers' = timers - 1
  /\ error' = NoError
  /\ last' = Step("timeout", 0, 0, FALSE, << >>, {})
  /\ UNCHANGED << now, zone, db, nextId, mounted, entries, loading, displayedDate,
                  isEditModalOpen, entryToEdit, isDeleteConfirmOpen,
                  itemIdToDelete, dailyTotals, requests, channels >>
  /\ ListFrame(error # NoError, entryToEditAt)

\* ------------------------------------------------------------- edit
\* setEntryToEdit(entry); setIsEditModalOpen(true); setError(null).  The
\* list renders again when one of the three values changes (Object.is: the
\* entry is the same when it is the object that is held, and a row of equal
\* content is another object); the form of a modal that stays rendered runs
\* its effect on [entry], which clears its message, when it is handed
\* another object.
handleOpenEditModal(i) ==
  /\ CanClick
  /\ entryToEdit' = << entries[i] >>
  /\ entryToEditAt' = i
  /\ isEditModalOpen' = TRUE
  /\ error' = NoError
  /\ last' = Step("openEdit", 0, 0, FALSE, << >>, {})
  /\ UNCHANGED << now, zone, db, nextId, mounted, entries, loading, displayedDate,
                  isDeleteConfirmOpen, itemIdToDelete, dailyTotals, requests,
                  channels, timers >>
  /\ LET same == entryToEditAt = i
     IN /\ renderedToday' =
             IF ~same \/ ~isEditModalOpen \/ error # NoError
             THEN isToday(displayedDate, now) ELSE renderedToday
        /\ editLoading' = (EditModalRendered /\ editLoading)
        /\ editErrorMessage' =
             IF EditModalRendered /\ same THEN editErrorMessage ELSE NoMessage
  /\ UNCHANGED << besideForms, logMounted, logLoading, logMessage,
                  logRequests, logTimers >>

handleCloseEditModal ==
  /\ EditModalRendered
  /\ isEditModalOpen' = FALSE
  /\ entryToEdit' = << >>
  /\ last' = Step("closeEdit", 0, 0, FALSE, << >>, {})
  /\ UNCHANGED << now, zone, db, nextId, mounted, entries, loading, error,
                  displayedDate, isDeleteConfirmOpen, itemIdToDelete,
                  dailyTotals, requests, channels, timers >>
  /\ ListFrame(TRUE, entryToEditAt)

\* The patch the edit form builds from its fields: parseInt for calories and
\* quantity, x ? parseFloat(x) : null for the macros (a blank field is null,
\* a typed 0 stays 0).
UpdateData(f) ==
  [calories |-> f.calories, protein |-> f.protein, carbs |-> f.carbs,
   fats |-> f.fats, quantity |-> f.quantity]

\* handleUpdateEntry up to its await.
SendUpdate(f) ==
  /\ Len(requests) < MaxInFlight
  /\ error' = NoError
  /\ requests' = Append(requests, UpdateRequest(entryToEdit[1].id, UpdateData(f)))

\* The edit form is submitted with fields that pass its checks (the button
\* is disabled while the form is loading): the form sets isLoading and calls
\* handleUpdateEntry.
handleUpdateEntry(f) ==
  /\ EditModalRendered /\ ~editLoading
  /\ SendUpdate(f)
  /\ editLoading' = TRUE
  /\ editErrorMessage' = NoMessage
  /\ last' = Step("update", 0, 0, FALSE, << >>, {})
  /\ UNCHANGED << now, zone, db, nextId, mounted, entries, loading, displayedDate,
                  isEditModalOpen, entryToEdit, isDeleteConfirmOpen,
                  itemIdToDelete, dailyTotals, timers, channels,
                  renderedToday, entryToEditAt >>
  /\ UNCHANGED << besideForms, logMounted, logLoading, logMessage,
                  logRequests, logTimers >>

\* A replacement that would add the returned row when its id is not held.
ReplaceLocalAdds(list, data) ==
  SortDesc(IF data.id \in Ids(list)
           THEN [i \in 1..Len(list) |-> IF list[i].id = data.id THEN data ELSE list[i]]
           ELSE list \o << data >>)

\* currentEntries.map(entry => entry.id === data.id ? {...entry, ...data}
\* : entry).sort(newest first)
ReplaceLocal(list, data) ==
  SortDesc([i \in 1..Len(list) |-> IF list[i].id = data.id THEN data ELSE list[i]])

\* The remote update returned the updated row.
UpdateOk(i) ==
  /\ requests[i].kind = "update"
  /\ requests[i].state = "answered"
  /\ requests[i].data # << >>
  /\ entries' = ReplaceLocal(entries, requests[i].data[1])
  /\ isEditModalOpen' = FALSE
  /\ entryToEdit' = << >>
  /\ requests' = RemoveAt(requests, i)
  /\ last' = Step("updateOk", requests[i].id, 0, FALSE, requests[i].data, {})
  /\ Totals
  /\ UNCHANGED << now, zone, db, nextId, mounted, loading, error, displayedDate,
                  isDeleteConfirmOpen, itemIdToDelete, channels, timers >>
  /\ ListFrame(TRUE, 0)

\* The remote update failed (or returned no row): the catch block.
UpdateFail(i) ==
  /\ requests[i].kind = "update"
  /\ requests[i].state # "orphan"
  /\ error' = "update"
  /\ requests' = RemoveAt(requests, i)
  /\ last' = Step("updateFail", requests[i].id, 0, FALSE, << >>, {})
  /\ UNCHANGED << now, zone, db, nextId, mounted, entries, loading, displayedDate,
                  isEditModalOpen, entryToEdit, isDeleteConfirmOpen,
                  itemIdToDelete, dailyTotals, channels, timers >>
  /\ ListFrame(error # "update", entryToEditAt)

\* ------------------------------------------------------------- mounting
\* The calls of a view that is gone: a delete or an update the backend has
\* not applied yet is still on its way to the backend, and no response is
\* waited for.
RECURSIVE Orphans(_)
Orphans(reqs) ==
  IF reqs = << >> THEN << >>
  ELSE IF Head(reqs).kind \in {"delete", "update"} /\ Head(reqs).state # "answered"
       THEN << [Head(reqs) EXCEPT !.state = "orphan"] >> \o Orphans(Tail(reqs))
       ELSE Orphans(Tail(reqs))

\* The user leaves the page: the cleanup of the realtime effect runs, and
\* what arrives later for this instance of the view changes nothing.
Unmount ==
  /\ mounted
  /\ Cardinality(Leaving) < MaxLeaving
  /\ mounted' = FALSE
  /\ channels' = Cleanup(channels)
  /\ requests' = Orphans(requests)
  /\ timers' = 0
  /\ entries' = << >>
  /\ loading' = FALSE
  /\ error' = NoError
  /\ isEditModalOpen' = FALSE
  /\ entryToEdit' = << >>
  /\ isDeleteConfirmOpen' = FALSE
  /\ itemIdToDelete' = 0
  /\ last' = Step("unmount", 0, 0, FALSE, << >>, {})
  /\ Totals
  /\ UNCHANGED << now, zone, db, nextId, displayedDate >>
  /\ ListFrame(TRUE, 0)

\* The user opens the page: the initial values, then both effects.
Mount ==
  /\ ~mounted
  /\ mounted' = TRUE
  /\ displayedDate' = now
  /\ entries' = << >>
  /\ RunEffects(now)
  /\ last' = Step("mount", 0, 0, FALSE, << >>, {})
  /\ Totals
  /\ UNCHANGED << now, zone, db, nextId, isEditModalOpen, entryToEdit,
                  isDeleteConfirmOpen, itemIdToDelete, timers >>
  /\ ListFrame(TRUE, 0)

\* ------------------------------------------------------------- summary steps
\* The clock passes the local midnight.
Midnight ==
  /\ toDateString(now) < LastDay
  /\ now' = (toDateString(now) + 1) * SlotsPerDay - zone
  /\ last' = Step("midnight", 0, 0, FALSE, << >>, {})
  /\ UNCHANGED << zone, listVars, otherViews >>

\* The summary view renders again: the next button of the tab that is shown
\* follows isCurrentWeek() or isCurrentMonth() as of that instant.
SummaryRender ==
  renderedCurrent' =
    IF activeTab' = "weekly" THEN isCurrentWeek(now', currentWeekDate')
    ELSE isCurrentMonth(now', currentMonthDate')

\* The weekly call returns rows; the monthly call is issued.
WeeklyOk(i, data) ==
  /\ calls[i].awaiting = "weekly"
  /\ weeklySummary' = SummaryOrZero(data)
  /\ loadingWeekly' = FALSE
  /\ calls' = [calls EXCEPT ![i].awaiting = "monthly"]
  /\ last' = Step("weeklyOk", 0, 0, FALSE, data, {})
  /\ UNCHANGED << now, zone, listVars, besideSummary, summaryMounted, monthlySummary,
                  loadingMonthly, summaryError, activeTab, currentWeekDate,
                  currentMonthDate >>
  /\ SummaryRender

\* The weekly call fails; the monthly call is issued.
WeeklyFail(i) ==
  /\ calls[i].awaiting = "weekly"
  /\ summaryError' = Append(summaryError, "Weekly Summary")
  /\ weeklySummary' = << >>
  /\ loadingWeekly' = FALSE
  /\ calls' = [calls EXCEPT ![i].awaiting = "monthly"]
  /\ last' = Step("weeklyFail", 0, 0, FALSE, << >>, {})
  /\ UNCHANGED << now, zone, listVars, besideSummary, summaryMounted, monthlySummary,
                  loadingMonthly, activeTab, currentWeekDate,
                  currentMonthDate >>
  /\ SummaryRender

\* The monthly call returns rows; fetchSummaries returns.
MonthlyOk(i, data) ==
  /\ calls[i].awaiting = "monthly"
  /\ monthlySummary' = SummaryOrZero(data)
  /\ loadingMonthly' = FALSE
  /\ calls' = RemoveAt(calls, i)
  /\ last' = Step("monthlyOk", 0, 0, FALSE, data, {})
  /\ UNCHANGED << now, zone, listVars, besideSummary, summaryMounted, weeklySummary,
                  loadingWeekly, summaryError, activeTab, currentWeekDate,
                  currentMonthDate >>
  /\ SummaryRender

\* The monthly call fails; fetchSummaries returns.
MonthlyFail(i) ==
  /\ calls[i].awaiting = "monthly"
  /\ summaryError' = Append(summaryError, "Monthly Summary")
  /\ monthlySummary' = << >>
  /\ loadingMonthly' = FALSE
  /\ calls' = RemoveAt(calls, i)
  /\ last' = Step("monthlyFail", 0, 0, FALSE, << >>, {})
  /\ UNCHANGED << now, zone, listVars, besideSummary, summaryMounted, weeklySummary,
                  loadingWeekly, activeTab, currentWeekDate,
                  currentMonthDate >>
  /\ SummaryRender

\* The previous (offset -1) or next (offset 1) button of the weekly tab; the
\* next button is rendered disabled while isCurrentWeek().
changeWeek(offset) ==
  /\ summaryMounted /\ activeTab = "weekly"
  /\ offset = 1 => ~renderedCurrent
  /\ offset = 0 - 1 =>
       StartOfWeek(now) - StartOfWeek(currentWeekDate) < 7 * MaxWeeksBack
  /\ currentWeekDate' =
       setDate(currentWeekDate, getDate(currentWeekDate) + offset * 7)
  /\ FetchSummariesStart(currentWeekDate', currentMonthDate)
  /\ last' = Step("changeWeek", 0, 0, FALSE, << >>, {})
  /\ UNCHANGED << now, zone, listVars, besideSummary, summaryMounted, weeklySummary,
                  monthlySummary, activeTab, currentMonthDate >>
  /\ SummaryRender

\* The previous or next button of the monthly tab; the next button is
\* rendered disabled while isCurrentMonth().
changeMonth(offset) ==
  /\ summaryMounted /\ activeTab = "monthly"
  /\ offset = 1 =>
       /\ ~renderedCurrent
       /\ MonthIndex(currentMonthDate) - MonthIndex(now) < MaxMonthsAhead
  /\ offset = 0 - 1 =>
       MonthIndex(now) - MonthIndex(currentMonthDate) < MaxMonthsBack
  /\ currentMonthDate' =
       setMonth(currentMonthDate, getMonth(currentMonthDate) + offset)
  /\ FetchSummariesStart(currentWeekDate, currentMonthDate')
  /\ last' = Step("changeMonth", 0, 0, FALSE, << >>, {})
  /\ UNCHANGED << now, zone, listVars, besideSummary, summaryMounted, weeklySummary,
                  monthlySummary, activeTab, currentWeekDate >>
  /\ SummaryRender

\* onTabChange={setActiveTab}
setActiveTab(tab) ==
  /\ summaryMounted /\ activeTab # tab
  /\ activeTab' = tab
  /\ last' = Step("setActiveTab", 0, 0, FALSE, << >>, {})
  /\ UNCHANGED << now, zone, listVars, besideSummary, summaryMounted, weeklySummary,
                  monthlySummary, loadingWeekly, loadingMonthly,
                  summaryError, currentWeekDate, currentMonthDate, calls >>
  /\ SummaryRender

\* The entry view is not open and no row has been logged.
ListUnmounted ==
  /\ db = {}
  /\ nextId = 1
  /\ mounted = FALSE
  /\ entries = << >>
  /\ loading = FALSE
  /\ error = NoError
  /\ displayedDate = 0
  /\ isEditModalOpen = FALSE
  /\ entryToEdit = << >>
  /\ isDeleteConfirmOpen = FALSE
  /\ itemIdToDelete = 0
  /\ dailyTotals = ZeroTotals
  /\ requests = << >>
  /\ channels = << >>
  /\ timers = 0
  /\ renderedToday = FALSE
  /\ entryToEditAt = 0

\* The summary view is mounted on one of the start days: the useState
\* initial values, then the effect.
InitSummary ==
  /\ \E day \in StartDays : now = dayStart(day)
  /\ zone \in Zones
  /\ ListUnmounted
  /\ summaryMounted = TRUE
  /\ weeklySummary = << >>
  /\ monthlySummary = << >>
  /\ loadingWeekly = TRUE
  /\ loadingMonthly = TRUE
  /\ summaryError = << >>
  /\ activeTab = "weekly"
  /\ currentWeekDate = now
  /\ currentMonthDate = now
  /\ calls = << SummaryCall(now, now) >>
  /\ renderedCurrent = TRUE
  /\ last = Step("init", 0, 0, FALSE, << >>, {})
  /\ SavedUnmounted
  /\ FormsUnmounted
  /\ GoalsUnmounted
  /\ CalcIdle
  /\ RoundIdle

\* ------------------------------------------------------------- saved food steps
\* The manager renders only the error text once the load has failed.
SavedCanClick == savedMounted /\ savedError = NoError

\* resetForm(), followed by setShowForm(show)
ResetForm(show) ==
  /\ formData' = BlankForm
  /\ editingFoodId' = 0
  /\ showForm' = show
  /\ formMessage' = NoMessage

\* setTimeout(() => setFormMessage(null), 3000)
StartMessageTimer ==
  /\ messageTimers < MaxMessageTimers
  /\ messageTimers' = messageTimers + 1

\* The inserts the backend has not processed yet.
SavedInsertsSent ==
  Cardinality({ i \in 1..Len(savedRequests) :
                  /\ savedRequests[i].kind = "insert"
                  /\ savedRequests[i].state = "sent" })

\* The backend processes a request of the manager; the response is on the
\* way.
SavedServer(i) ==
  /\ savedRequests[i].state = "sent"
  /\ savedDb' = SavedApplied(savedDb, savedNextId, savedRequests[i])
  /\ savedNextId' =
       IF /\ savedRequests[i].kind = "insert"
          /\ SavedResult(savedDb, savedNextId, savedRequests[i]).status = "ok"
       THEN savedNextId + 1 ELSE savedNextId
  /\ savedRequests' =
       [savedRequests EXCEPT
          ![i].state = "answered",
          ![i].result = SavedResult(savedDb, savedNextId, savedRequests[i])]
  /\ last' = Step("savedServer", 0, 0, FALSE, << >>, {})
  /\ UNCHANGED << now, zone, listVars, besideSaved, savedMounted, savedFoods,
                  formData, showForm, savedLoading, saving, savedError,
                  formMessage, editingFoodId, isSavedDeleteOpen, itemToDelete,
                  messageTimers >>

\* fetchSavedFoods returns the rows of the user.
SavedFetchOk(i) ==
  /\ savedRequests[i].kind = "fetch"
  /\ savedRequests[i].state = "answered"
  /\ savedFoods' = savedRequests[i].result.rows
  /\ savedLoading' = FALSE
  /\ savedRequests' = RemoveAt(savedRequests, i)
  /\ last' = Step("savedFetchOk", 0, 0, FALSE, << >>, {})
  /\ UNCHANGED << now, zone, listVars, besideSaved, savedDb, savedNextId,
                  savedMounted, formData, showForm, saving, savedError,
                  formMessage, editingFoodId, isSavedDeleteOpen, itemToDelete,
                  messageTimers >>

SavedFetchFail(i) ==
  /\ savedRequests[i].kind = "fetch"
  /\ savedError' = "load"
  /\ savedLoading' = FALSE
  /\ savedRequests' = RemoveAt(savedRequests, i)
  /\ last' = Step("savedFetchFail", 0, 0, FALSE, << >>, {})
  /\ UNCHANGED << now, zone, listVars, besideSaved, savedDb, savedNextId,
                  savedMounted, savedFoods, formData, showForm, saving,
                  formMessage, editingFoodId, isSavedDeleteOpen, itemToDelete,
                  messageTimers >>

\* The Add / Cancel button of the header.
toggleForm ==
  /\ SavedCanClick
  /\ IF showForm /\ editingFoodId # 0 THEN ResetForm(FALSE)
     ELSE IF showForm
          THEN showForm' = FALSE /\ UNCHANGED << formData, editingFoodId, formMessage >>
          ELSE ResetForm(TRUE)
  /\ last' = Step("toggleForm", 0, 0, FALSE, << >>, {})
  /\ UNCHANGED << now, zone, listVars, besideSaved, savedDb, savedNextId,
                  savedMounted, savedFoods, savedLoading, saving, savedError,
                  isSavedDeleteOpen, itemToDelete, savedRequests,
                  messageTimers >>

\* The user types into the form.
handleInputChange(form) ==
  /\ SavedCanClick /\ showForm
  /\ form # formData
  /\ formData' = form
  /\ last' = Step("inputChange", 0, 0, FALSE, << >>, {})
  /\ UNCHANGED << now, zone, listVars, besideSaved, savedDb, savedNextId,
                  savedMounted, savedFoods, showForm, savedLoading, saving,
                  savedError, formMessage, editingFoodId, isSavedDeleteOpen,
                  itemToDelete, savedRequests, messageTimers >>

\* The form is submitted (the button is disabled while saving, and the
\* browser submits only a form whose inputs satisfy their constraints):
\* handleFormSubmit up to its await.
handleFormSubmit ==
  /\ SavedCanClick /\ showForm /\ ~saving
  /\ SavedConstraintsValid(formData)
  /\ editingFoodId = 0 => savedNextId + SavedInsertsSent <= MaxSaved
  /\ IF SavedFormRejected(formData)
     THEN /\ formMessage' = "required"
          /\ UNCHANGED << saving, savedRequests >>
     ELSE /\ saving' = TRUE
          /\ formMessage' = NoMessage
          /\ savedRequests' = Append(savedRequests,
               IF editingFoodId # 0
               THEN SavedRequest("update", editingFoodId,
                                 foodDataToSave(formData), {"id", "user_id"})
               ELSE SavedRequest("insert", 0, foodDataToSave(formData), {}))
  /\ last' = Step("savedSubmit", 0, 0, FALSE, << >>, {})
  /\ UNCHANGED << now, zone, listVars, besideSaved, savedDb, savedNextId,
                  savedMounted, savedFoods, formData, showForm, savedLoading,
                  savedError, editingFoodId, isSavedDeleteOpen, itemToDelete,
                  messageTimers >>

\* A handler that treats code 23505 as any other error.
SavedInsertDoneNoDuplicate(i) ==
  /\ savedRequests[i].kind = "insert"
  /\ savedRequests[i].state = "answered"
  /\ IF savedRequests[i].result.status = "duplicate"
     THEN /\ formMessage' = "failed"
          /\ last' = Step("savedDuplicate", 0, 0, FALSE, << >>, {})
          /\ UNCHANGED << savedFoods, formData, showForm, editingFoodId,
                          messageTimers >>
     ELSE /\ savedFoods' =
               SortByName(Append(savedFoods, savedRequests[i].result.rows[1]))
          /\ ResetForm(FALSE)
          /\ StartMessageTimer
          /\ last' = Step("savedInsertOk", 0, 0, FALSE, << >>, {})
  /\ saving' = FALSE
  /\ savedRequests' = RemoveAt(savedRequests, i)
  /\ UNCHANGED << now, zone, listVars, besideSaved, savedDb, savedNextId,
                  savedMounted, savedLoading, savedError, isSavedDeleteOpen,
                  itemToDelete >>

\* The response of the insert arrives: code 23505 gives the duplicate
\* message, otherwise the returned row is added to the held list.
SavedInsertDone(i) ==
  /\ savedRequests[i].kind = "insert"
  /\ savedRequests[i].state = "answered"
  /\ IF savedRequests[i].result.status = "duplicate"
     THEN /\ formMessage' = "duplicate"
          /\ last' = Step("savedDuplicate", 0, 0, FALSE, << >>, {})
          /\ UNCHANGED << savedFoods, formData, showForm, editingFoodId,
                          messageTimers >>
     ELSE /\ savedFoods' =
               SortByName(Append(savedFoods, savedRequests[i].result.rows[1]))
          /\ ResetForm(FALSE)
          /\ StartMessageTimer
          /\ last' = Step("savedInsertOk", 0, 0, FALSE, << >>, {})
  /\ saving' = FALSE
  /\ savedRequests' = RemoveAt(savedRequests, i)
  /\ UNCHANGED << now, zone, listVars, besideSaved, savedDb, savedNextId,
                  savedMounted, savedLoading, savedError, isSavedDeleteOpen,
                  itemToDelete >>

\* prev.map(food => food.id === editingFoodId ? savedItem : food).sort(...)
ReplaceSaved(list, row) ==
  SortByName([k \in 1..Len(list) |-> IF list[k].id = row.id THEN row ELSE list[k]])

\* The response of the update arrives: no row (.single() fails), code 23505,
\* or the updated row, which replaces the held food of the id.
SavedUpdateDone(i) ==
  /\ savedRequests[i].kind = "update"
  /\ savedRequests[i].state = "answered"
  /\ LET rid == savedRequests[i].id
         result == savedRequests[i].result
     IN IF result.status = "missing"
        THEN /\ formMessage' = "failed"
             /\ last' = Step("savedFail", 0, 0, FALSE, << >>, {})
             /\ UNCHANGED << savedFoods, formData, showForm, editingFoodId,
                             messageTimers >>
        ELSE IF result.status = "duplicate"
        THEN /\ formMessage' = "duplicate"
             /\ last' = Step("savedDuplicate", rid, 0, FALSE, << >>, {})
             /\ UNCHANGED << savedFoods, formData, showForm, editingFoodId,
                             messageTimers >>
        ELSE /\ savedFoods' = ReplaceSaved(savedFoods, result.rows[1])
             /\ ResetForm(FALSE)
             /\ StartMessageTimer
             /\ last' = Step("savedUpdateOk", rid, 0, FALSE, << >>, {})
  /\ saving' = FALSE
  /\ savedRequests' = RemoveAt(savedRequests, i)
  /\ UNCHANGED << now, zone, listVars, besideSaved, savedDb, savedNextId,
                  savedMounted, savedLoading, savedError, isSavedDeleteOpen,
                  itemToDelete >>

\* The insert or the update fails for another reason.
SavedSaveFail(i) ==
  /\ savedRequests[i].kind \in {"insert", "update"}
  /\ formMessage' = "failed"
  /\ saving' = FALSE
  /\ savedRequests' = RemoveAt(savedRequests, i)
  /\ last' = Step("savedFail", 0, 0, FALSE, << >>, {})
  /\ UNCHANGED << now, zone, listVars, besideSaved, savedDb, savedNextId,
                  savedMounted, savedFoods, formData, showForm, savedLoading,
                  savedError, editingFoodId, isSavedDeleteOpen, itemToDelete,
                  messageTimers >>

\* The Edit button of a food of the list, which is rendered while the form
\* is not shown; the button is disabled while saving.
handleEditFood(k) ==
  /\ SavedCanClick /\ ~showForm /\ ~saving
  /\ editingFoodId' = savedFoods[k].id
  /\ formData' = FormOf(savedFoods[k])
  /\ showForm' = TRUE
  /\ formMessage' = NoMessage
  /\ last' = Step("editFood", 0, 0, FALSE, << >>, {})
  /\ UNCHANGED << now, zone, listVars, besideSaved, savedDb, savedNextId,
                  savedMounted, savedFoods, savedLoading, saving, savedError,
                  isSavedDeleteOpen, itemToDelete, savedRequests,
                  messageTimers >>

\* The Delete button of a food of the list, which is rendered while the
\* form is not shown; the button is disabled while saving.
requestDeleteSavedFood(k) ==
  /\ SavedCanClick /\ ~showForm /\ ~saving
  /\ itemToDelete' = savedFoods[k].id
  /\ isSavedDeleteOpen' = TRUE
  /\ formMessage' = NoMessage
  /\ last' = Step("requestSavedDelete", 0, 0, FALSE, << >>, {})
  /\ UNCHANGED << now, zone, listVars, besideSaved, savedDb, savedNextId,
                  savedMounted, savedFoods, formData, showForm, savedLoading,
                  saving, savedError, editingFoodId, savedRequests,
                  messageTimers >>

cancelSavedDelete ==
  /\ SavedCanClick /\ isSavedDeleteOpen
  /\ isSavedDeleteOpen' = FALSE
  /\ itemToDelete' = 0
  /\ last' = Step("cancelSavedDelete", 0, 0, FALSE, << >>, {})
  /\ UNCHANGED << now, zone, listVars, besideSaved, savedDb, savedNextId,
                  savedMounted, savedFoods, formData, showForm, savedLoading,
                  saving, savedError, formMessage, editingFoodId,
                  savedRequests, messageTimers >>

\* confirmDeleteSavedFood up to its await: .delete().match({ id: foodId })
confirmDeleteSavedFood ==
  /\ SavedCanClick /\ isSavedDeleteOpen /\ itemToDelete # 0 /\ ~saving
  /\ isSavedDeleteOpen' = FALSE
  /\ itemToDelete' = 0
  /\ saving' = TRUE
  /\ savedRequests' = Append(savedRequests,
       SavedRequest("delete", itemToDelete, BlankForm, {"id"}))
  /\ last' = Step("confirmSavedDelete", 0, 0, FALSE, << >>, {})
  /\ UNCHANGED << now, zone, listVars, besideSaved, savedDb, savedNextId,
                  savedMounted, savedFoods, formData, showForm, savedLoading,
                  savedError, formMessage, editingFoodId, messageTimers >>

\* The response of the delete arrives without an error.
SavedDeleteOk(i) ==
  /\ savedRequests[i].kind = "delete"
  /\ savedRequests[i].state = "answered"
  /\ savedFoods' = SelectSeq(savedFoods, LAMBDA f : f.id # savedRequests[i].id)
  /\ formMessage' = "deleted"
  /\ StartMessageTimer
  /\ saving' = FALSE
  /\ savedRequests' = RemoveAt(savedRequests, i)
  /\ last' = Step("savedDeleteOk", 0, 0, FALSE, << >>, {})
  /\ UNCHANGED << now, zone, listVars, besideSaved, savedDb, savedNextId, savedMounted,
                  formData, showForm, savedLoading, savedError, editingFoodId,
                  isSavedDeleteOpen, itemToDelete >>

SavedDeleteFail(i) ==
  /\ savedRequests[i].kind = "delete"
  /\ formMessage' = "failed"
  /\ saving' = FALSE
  /\ savedRequests' = RemoveAt(savedRequests, i)
  /\ last' = Step("savedFail", 0, 0, FALSE, << >>, {})
  /\ UNCHANGED << now, zone, listVars, besideSaved, savedDb, savedNextId,
                  savedMounted, savedFoods, formData, showForm, savedLoading,
                  savedError, editingFoodId, isSavedDeleteOpen, itemToDelete,
                  messageTimers >>

MessageTimeout ==
  /\ messageTimers > 0
  /\ messageTimers' = messageTimers - 1
  /\ formMessage' = NoMessage
  /\ last' = Step("messageTimeout", 0, 0, FALSE, << >>, {})
  /\ UNCHANGED << now, zone, listVars, besideSaved, savedDb, savedNextId,
                  savedMounted, savedFoods, formData, showForm, savedLoading,
                  saving, savedError, editingFoodId, isSavedDeleteOpen,
                  itemToDelete, savedRequests >>

\* Another session of the same user saves a food.
SavedElsewhere(name) ==
  /\ savedNextId + SavedInsertsSent <= MaxSaved
  /\ ~NameTaken(savedDb, 0, name)
  /\ savedDb' = savedDb \cup
       {SavedRow(savedNextId, foodDataToSave([BlankForm EXCEPT !.food_name = name, !.calories = << 100 >>]))}
  /\ savedNextId' = savedNextId + 1
  /\ last' = Step("savedElsewhere", 0, 0, FALSE, << >>, {})
  /\ UNCHANGED << now, zone, listVars, besideSaved, savedMounted, savedFoods,
                  formData, showForm, savedLoading, saving, savedError,
                  formMessage, editingFoodId, isSavedDeleteOpen, itemToDelete,
                  savedRequests, messageTimers >>

\* The log page is opened: the useState initial values, then the effect.
InitSaved ==
  /\ now = 0
  /\ zone = 0
  /\ ListUnmounted
  /\ SummaryUnmounted
  /\ FormsUnmounted
  /\ GoalsUnmounted
  /\ CalcIdle
  /\ RoundIdle
  /\ savedDb = {}
  /\ savedNextId = 1
  /\ savedMounted = TRUE
  /\ savedFoods = << >>
  /\ formData = BlankForm
  /\ showForm = FALSE
  /\ savedLoading = TRUE
  /\ saving = FALSE
  /\ savedError = NoError
  /\ formMessage = NoMessage
  /\ editingFoodId = 0
  /\ isSavedDeleteOpen = FALSE
  /\ itemToDelete = 0
  /\ savedRequests = << SavedRequest("fetch", 0, BlankForm, {"user_id"}) >>
  /\ messageTimers = 0
  /\ last = Step("init", 0, 0, FALSE, << >>, {})

\* ------------------------------------------------------------- form steps
\* The log form is submitted with the typed fields for the day `back` days
\* ago (the button is disabled while loading).  The browser submits only a
\* form whose inputs satisfy their constraints; then handleSubmit runs up to
\* its await.
LogSubmit(form, back) ==
  /\ logMounted /\ ~logLoading
  /\ \/ /\ ~LogConstraintsValid(form)
        /\ UNCHANGED << logLoading, logMessage, logRequests >>
     \/ /\ LogConstraintsValid(form)
        /\ LogFormRejected(form)
        /\ logMessage' = "invalid"
        /\ UNCHANGED << logLoading, logRequests >>
     \/ /\ LogConstraintsValid(form)
        /\ ~LogFormRejected(form)
        /\ nextId + LogInsertsSent <= MaxRows
        /\ logLoading' = TRUE
        /\ logMessage' = NoMessage
        /\ logRequests' = Append(logRequests,
             [created_at |-> createTimestampForDate(back, now),
              data |-> InsertData(FoodOf(form)), state |-> "sent"])
  /\ last' = Step("logSubmit", 0, 0, FALSE, << form >>, {})
  /\ UNCHANGED << now, zone, listVars, besideForms, logMounted, logTimers,
                  editLoading, editErrorMessage >>

\* The finally block of the log form: setTimeout(() => setMessage(null), 5000)
StartLogTimer ==
  /\ logTimers < MaxMessageTimers
  /\ logTimers' = logTimers + 1

\* The backend creates the row of an insert of the log form and notifies
\* every channel it still knows; the response is on the way.
LogServer(i) ==
  /\ logRequests[i].state = "sent"
  /\ LET row == MkRow(nextId, logRequests[i].created_at, logRequests[i].data)
     IN /\ db' = db \cup {row}
        /\ channels' = [k \in 1..Len(channels) |->
                          [channels[k] EXCEPT !.queue = Append(@, row)]]
  /\ nextId' = nextId + 1
  /\ logRequests' = [logRequests EXCEPT ![i].state = "answered"]
  /\ last' = Step("logServer", 0, 0, FALSE, << >>, {})
  /\ UNCHANGED << now, zone, mounted, entries, loading, error, displayedDate,
                  isEditModalOpen, entryToEdit, isDeleteConfirmOpen,
                  itemIdToDelete, dailyTotals, requests, timers,
                  renderedToday, entryToEditAt >>
  /\ UNCHANGED << besideForms, logMounted, logLoading, logMessage, logTimers,
                  editLoading, editErrorMessage >>

\* The response of the insert arrives without an error.
LogInsertDone(i) ==
  /\ logRequests[i].state = "answered"
  /\ logMessage' = "added"
  /\ logLoading' = FALSE
  /\ StartLogTimer
  /\ logRequests' = RemoveAt(logRequests, i)
  /\ last' = Step("logInsertOk", 0, 0, FALSE, << >>, {})
  /\ UNCHANGED << now, zone, listVars, besideForms, logMounted, editLoading,
                  editErrorMessage >>

\* The insert fails: the catch block, then the finally block.
LogInsertFail(i) ==
  /\ logMessage' = "error"
  /\ logLoading' = FALSE
  /\ StartLogTimer
  /\ logRequests' = RemoveAt(logRequests, i)
  /\ last' = Step("logInsertFail", 0, 0, FALSE, << >>, {})
  /\ UNCHANGED << now, zone, listVars, besideForms, logMounted, editLoading,
                  editErrorMessage >>

LogMessageTimeout ==
  /\ logTimers > 0
  /\ logTimers' = logTimers - 1
  /\ logMessage' = NoMessage
  /\ last' = Step("logTimeout", 0, 0, FALSE, << >>, {})
  /\ UNCHANGED << now, zone, listVars, besideForms, logMounted, logLoading,
                  logRequests, editLoading, editErrorMessage >>

\* The form of the edit modal is submitted with the typed fields (the button
\* is disabled while the form is loading): EditEntryForm.handleSubmit, which
\* calls handleUpdateEntry when its checks pass.
EditSubmit(form) ==
  /\ EditModalRendered /\ ~editLoading
  /\ \/ /\ ~EditConstraintsValid(form)
        /\ UNCHANGED << error, requests, editLoading, editErrorMessage >>
     \/ /\ EditConstraintsValid(form)
        /\ EditFormRejected(form)
        /\ editErrorMessage' = "invalid"
        /\ UNCHANGED << error, requests, editLoading >>
     \/ /\ EditConstraintsValid(form)
        /\ ~EditFormRejected(form)
        /\ editLoading' = TRUE
        /\ editErrorMessage' = NoMessage
        /\ SendUpdate(FoodOf(form))
  /\ last' = Step("editSubmit", entryToEdit[1].id, 0, FALSE, << form >>, {})
  /\ UNCHANGED << now, zone, db, nextId, mounted, entries, loading, displayedDate,
                  isEditModalOpen, entryToEdit, isDeleteConfirmOpen,
                  itemIdToDelete, dailyTotals, timers, channels,
                  renderedToday, entryToEditAt >>
  /\ UNCHANGED << besideForms, logMounted, logLoading, logMessage,
                  logRequests, logTimers >>

\* ------------------------------------------------------------- goals steps
\* fetchUserGoals up to its first await.
StartFetchUserGoals ==
  /\ Len(goalsCalls) < MaxGoalsCalls
  /\ goalsLoading' = TRUE
  /\ goalsError' = NoError
  /\ goalsCalls' = Append(goalsCalls, GoalsCall("select"))

\* fetchCurrentGoals up to its await: setLoading(true); setMessage(null).
StartFetchCurrentGoals ==
  /\ Len(goalsRequests) < MaxInFlight
  /\ goalsFormLoading' = TRUE
  /\ goalsMessage' = NoMessage
  /\ goalsRequests' = Append(goalsRequests, GoalsRequest("current", DefaultGoals))

\* onAuthStateChange hands the application a new session object: every
\* effect that depends on the session runs again, in each view that is
\* mounted: the two effects of the entry view, the effect of the summary
\* view, the effect of the goals card and, while the goals form is open, the
\* effect of the goals form.  The entry view shows its loading screen in
\* place of the list and of the edit modal.
SessionChange ==
  /\ mounted \/ summaryMounted \/ goalsMounted
  /\ UNCHANGED << now, zone, db, nextId, mounted, entries, displayedDate,
                  isEditModalOpen, entryToEdit, entryToEditAt,
                  isDeleteConfirmOpen, itemIdToDelete, dailyTotals, timers,
                  summaryMounted,
                  weeklySummary, monthlySummary, activeTab, currentWeekDate,
                  currentMonthDate, savedVars, logMounted, logLoading,
                  logMessage, logRequests, logTimers, goalsDb, goalsMounted,
                  userGoals, goalsFormOpen, goalsSaving, goalsTimers,
                  calcVars, roundVars >>
  /\ IF mounted
     THEN /\ RunEffects(displayedDate)
          /\ renderedToday' = FALSE
          /\ editLoading' = FALSE
          /\ editErrorMessage' = NoMessage
     ELSE UNCHANGED << loading, error, requests, channels, renderedToday,
                       editLoading, editErrorMessage >>
  /\ IF summaryMounted
     THEN /\ FetchSummariesStart(currentWeekDate, currentMonthDate)
          /\ SummaryRender
     ELSE UNCHANGED << loadingWeekly, loadingMonthly, summaryError, calls,
                       renderedCurrent >>
  /\ IF goalsMounted
     THEN StartFetchUserGoals
     ELSE UNCHANGED << goalsLoading, goalsError, goalsCalls >>
  /\ IF goalsMounted /\ goalsFormOpen
     THEN StartFetchCurrentGoals
     ELSE UNCHANGED << goalsFormLoading, goalsMessage, goalsRequests >>
  /\ last' = Step("session", 0, 0, FALSE, << >>, {})

\* The backend processes a call of fetchUserGoals: the select returns the
\* row of the user, or PGRST116 when there is none; the insert of the
\* defaults creates the row, or is refused when the user has a row by now
\* (user_id is unique in user_goals).
GoalsServer(i) ==
  /\ goalsCalls[i].state = "sent"
  /\ IF goalsCalls[i].stage = "select"
     THEN /\ goalsCalls' =
               [goalsCalls EXCEPT
                  ![i].state = "answered",
                  ![i].status = IF goalsDb = << >> THEN "PGRST116" ELSE "ok",
                  ![i].row = goalsDb]
          /\ UNCHANGED goalsDb
     ELSE /\ goalsCalls' =
               [goalsCalls EXCEPT
                  ![i].state = "answered",
                  ![i].status = IF goalsDb = << >> THEN "ok" ELSE "refused",
                  ![i].row = IF goalsDb = << >> THEN << DefaultGoals >> ELSE << >>]
          /\ goalsDb' = IF goalsDb = << >> THEN << DefaultGoals >> ELSE goalsDb
  /\ last' = Step("goalsServer", 0, 0, FALSE, << >>, {})
  /\ UNCHANGED << now, zone, listVars, besideGoals, goalsMounted, userGoals,
                  goalsLoading, goalsError, goalsFormOpen, goalsFormLoading, goalsSaving,
                  goalsMessage, goalsRequests, goalsTimers >>

\* The backend processes a call of the goals form: the select returns the
\* row of the user or PGRST116; the upsert on user_id creates or replaces
\* the row.
GoalsFormServer(i) ==
  /\ goalsRequests[i].state = "sent"
  /\ goalsRequests' = [goalsRequests EXCEPT ![i].state = "answered",
                                            ![i].row = goalsDb]
  /\ goalsDb' = IF goalsRequests[i].kind = "upsert"
                THEN << goalsRequests[i].data >> ELSE goalsDb
  /\ last' = Step("goalsFormServer", 0, 0, FALSE, << >>, {})
  /\ UNCHANGED << now, zone, listVars, besideGoals, goalsMounted, userGoals,
                  goalsLoading, goalsError, goalsCalls, goalsFormOpen,
                  goalsFormLoading, goalsSaving, goalsMessage, goalsTimers >>

\* The Try again button, rendered when not loading and error || !userGoals.
GoalsTryAgain ==
  /\ goalsMounted /\ ~goalsLoading
  /\ goalsError # NoError \/ userGoals = << >>
  /\ StartFetchUserGoals
  /\ last' = Step("goalsTryAgain", 0, 0, FALSE, << >>, {})
  /\ UNCHANGED << now, zone, listVars, besideGoals, goalsDb, goalsMounted,
                  userGoals, goalsFormOpen, goalsFormLoading, goalsSaving, goalsMessage,
                  goalsRequests, goalsTimers >>

\* The response of the select of fetchUserGoals arrives: the row, or
\* PGRST116, in which case the call goes on to insert the defaults.
GoalsSelectDone(i) ==
  /\ goalsCalls[i].stage = "select"
  /\ goalsCalls[i].state = "answered"
  /\ IF goalsCalls[i].status = "PGRST116"
     THEN /\ goalsCalls' = [goalsCalls EXCEPT ![i] = GoalsCall("insert")]
          /\ last' = Step("goalsNotFound", 0, 0, FALSE, << >>, {})
          /\ UNCHANGED << userGoals, goalsLoading >>
     ELSE /\ userGoals' = goalsCalls[i].row
          /\ goalsLoading' = FALSE
          /\ goalsCalls' = RemoveAt(goalsCalls, i)
          /\ last' = Step("goalsFound", 0, 0, FALSE, << >>, {})
  /\ UNCHANGED << now, zone, listVars, besideGoals, goalsDb, goalsMounted,
                  goalsError, goalsFormOpen, goalsFormLoading, goalsSaving, goalsMessage,
                  goalsRequests, goalsTimers >>

\* The select or the insert of fetchUserGoals fails for another reason.
GoalsCallFail(i) ==
  /\ goalsError' = "load"
  /\ goalsLoading' = FALSE
  /\ goalsCalls' = RemoveAt(goalsCalls, i)
  /\ last' = Step("goalsFail", 0, 0, FALSE, << >>, {})
  /\ UNCHANGED << now, zone, listVars, besideGoals, goalsDb, goalsMounted,
                  userGoals, goalsFormOpen, goalsFormLoading, goalsSaving, goalsMessage,
                  goalsRequests, goalsTimers >>

\* The response of the insert of the defaults arrives: the created row, or
\* the error of the refused insert.
GoalsInsertDone(i) ==
  /\ goalsCalls[i].stage = "insert"
  /\ goalsCalls[i].state = "answered"
  /\ IF goalsCalls[i].status = "ok"
     THEN /\ userGoals' = goalsCalls[i].row
          /\ last' = Step("goalsCreated", 0, 0, FALSE, << >>, {})
          /\ UNCHANGED goalsError
     ELSE /\ goalsError' = "load"
          /\ last' = Step("goalsInsertRefused", 0, 0, FALSE, << >>, {})
          /\ UNCHANGED userGoals
  /\ goalsLoading' = FALSE
  /\ goalsCalls' = RemoveAt(goalsCalls, i)
  /\ UNCHANGED << now, zone, listVars, besideGoals, goalsDb, goalsMounted,
                  goalsFormOpen, goalsFormLoading, goalsSaving, goalsMessage, goalsRequests,
                  goalsTimers >>

\* The goals form is opened: the effect calls fetchCurrentGoals.
OpenGoalsForm ==
  /\ goalsMounted /\ ~goalsFormOpen
  /\ goalsFormOpen' = TRUE
  /\ StartFetchCurrentGoals
  /\ last' = Step("openGoals", 0, 0, FALSE, << >>, {})
  /\ UNCHANGED << now, zone, listVars, besideGoals, goalsDb, goalsMounted,
                  userGoals, goalsLoading, goalsError, goalsCalls,
                  goalsSaving, goalsTimers >>

CloseGoalsForm ==
  /\ goalsFormOpen
  /\ goalsFormOpen' = FALSE
  /\ last' = Step("closeGoals", 0, 0, FALSE, << >>, {})
  /\ UNCHANGED << now, zone, listVars, besideGoals, goalsDb, goalsMounted,
                  userGoals, goalsLoading, goalsError, goalsCalls,
                  goalsFormLoading, goalsSaving, goalsMessage, goalsRequests, goalsTimers >>

\* The response of the select of fetchCurrentGoals arrives: the row fills
\* the fields of the form, and PGRST116 leaves the defaults in them; no row
\* is created.  The finally block clears the loading flag of the form.
GoalsCurrentDone(i) ==
  /\ goalsRequests[i].kind = "current"
  /\ goalsRequests[i].state = "answered"
  /\ goalsFormLoading' = FALSE
  /\ goalsRequests' = RemoveAt(goalsRequests, i)
  /\ last' = Step(IF goalsRequests[i].row = << >> THEN "currentNotFound"
                  ELSE "currentFound", 0, 0, FALSE, << >>, {})
  /\ UNCHANGED << now, zone, listVars, besideGoals, goalsDb, goalsMounted,
                  userGoals, goalsLoading, goalsError, goalsCalls,
                  goalsFormOpen, goalsSaving, goalsMessage, goalsTimers >>

\* The select fails: the catch block, then the finally block.
GoalsCurrentFail(i) ==
  /\ goalsRequests[i].kind = "current"
  /\ goalsMessage' = "load"
  /\ goalsFormLoading' = FALSE
  /\ goalsRequests' = RemoveAt(goalsRequests, i)
  /\ last' = Step("currentFail", 0, 0, FALSE, << >>, {})
  /\ UNCHANGED << now, zone, listVars, besideGoals, goalsDb, goalsMounted,
                  userGoals, goalsLoading, goalsError, goalsCalls,
                  goalsFormOpen, goalsSaving, goalsTimers >>

\* The goals form is submitted with the typed fields (the inputs and the
\* button are rendered once the form is not loading, and the button is
\* disabled while saving): the constraints of the inputs, then handleSubmit
\* up to its await.
GoalsSubmit(form) ==
  /\ goalsFormOpen /\ ~goalsFormLoading /\ ~goalsSaving
  /\ \/ /\ ~GoalsConstraintsValid(form)
        /\ UNCHANGED << goalsSaving, goalsMessage, goalsRequests >>
     \/ /\ GoalsConstraintsValid(form)
        /\ GoalsFormRejected(form)
        /\ goalsMessage' = "invalid"
        /\ UNCHANGED << goalsSaving, goalsRequests >>
     \/ /\ GoalsConstraintsValid(form)
        /\ ~GoalsFormRejected(form)
        /\ Len(goalsRequests) < MaxInFlight
        /\ goalsSaving' = TRUE
        /\ goalsMessage' = NoMessage
        /\ goalsRequests' = Append(goalsRequests, GoalsRequest("upsert", form))
  /\ last' = Step("goalsSubmit", 0, 0, FALSE, << form >>, {})
  /\ UNCHANGED << now, zone, listVars, besideGoals, goalsDb, goalsMounted,
                  userGoals, goalsLoading, goalsError, goalsCalls,
                  goalsFormOpen, goalsFormLoading, goalsTimers >>

\* The response of the upsert arrives without an error: the message, and
\* the timer that closes the form.
GoalsUpsertDone(i) ==
  /\ goalsRequests[i].kind = "upsert"
  /\ goalsRequests[i].state = "answered"
  /\ goalsTimers < MaxMessageTimers
  /\ goalsMessage' = "updated"
  /\ goalsSaving' = FALSE
  /\ goalsTimers' = goalsTimers + 1
  /\ goalsRequests' = RemoveAt(goalsRequests, i)
  /\ last' = Step("goalsUpsertOk", 0, 0, FALSE, << >>, {})
  /\ UNCHANGED << now, zone, listVars, besideGoals, goalsDb, goalsMounted, userGoals,
                  goalsLoading, goalsError, goalsCalls, goalsFormOpen,
                  goalsFormLoading >>

GoalsUpsertFail(i) ==
  /\ goalsRequests[i].kind = "upsert"
  /\ goalsMessage' = "failed"
  /\ goalsSaving' = FALSE
  /\ goalsRequests' = RemoveAt(goalsRequests, i)
  /\ last' = Step("goalsUpsertFail", 0, 0, FALSE, << >>, {})
  /\ UNCHANGED << now, zone, listVars, besideGoals, goalsDb, goalsMounted,
                  userGoals, goalsLoading, goalsError, goalsCalls,
                  goalsFormOpen, goalsFormLoading, goalsTimers >>

\* setTimeout(() => { onClose(); setMessage(null) }, 1500)
GoalsCloseTimeout ==
  /\ goalsTimers > 0
  /\ goalsTimers' = goalsTimers - 1
  /\ goalsFormOpen' = FALSE
  /\ goalsMessage' = NoMessage
  /\ last' = Step("goalsTimeout", 0, 0, FALSE, << >>, {})
  /\ UNCHANGED << now, zone, listVars, besideGoals, goalsDb, goalsMounted,
                  userGoals, goalsLoading, goalsError, goalsCalls,
                  goalsFormLoading, goalsSaving, goalsRequests >>

\* ------------------------------------------------------------- pages
\* The entry view as it is when mounted: the conjuncts of Init about it.
ListOpened ==
  /\ db = {}
  /\ nextId = 1
  /\ mounted = TRUE
  /\ entries = << >>
  /\ loading = TRUE
  /\ error = NoError
  /\ displayedDate = 0
  /\ isEditModalOpen = FALSE
  /\ entryToEdit = << >>
  /\ isDeleteConfirmOpen = FALSE
  /\ itemIdToDelete = 0
  /\ dailyTotals = ZeroTotals
  /\ requests = << LoadRequest(0) >>
  /\ channels = << [date |-> 0, leaving |-> FALSE, queue |-> << >>] >>
  /\ timers = 0
  /\ renderedToday = FALSE
  /\ entryToEditAt = 0

\* The log page is opened: the log form with its useState initial values.
LogOpened ==
  /\ logMounted = TRUE
  /\ logLoading = FALSE
  /\ logMessage = NoMessage
  /\ logRequests = << >>
  /\ logTimers = 0
  /\ editLoading = FALSE
  /\ editErrorMessage = NoMessage

\* The goals card is mounted: the useState initial values, then the effect.
GoalsOpened ==
  /\ goalsDb = << >>
  /\ goalsMounted = TRUE
  /\ userGoals = << >>
  /\ goalsLoading = TRUE
  /\ goalsError = NoError
  /\ goalsCalls = << GoalsCall("select") >>
  /\ goalsFormOpen = FALSE
  /\ goalsFormLoading = FALSE
  /\ goalsSaving = FALSE
  /\ goalsMessage = NoMessage
  /\ goalsRequests = << >>
  /\ goalsTimers = 0

\* One of three pages is opened: the log page with the log form, the entry
\* view with its edit modal, or the goals card with the goals form.
InitForms ==
  /\ now = 0
  /\ zone = 0
  /\ last = Step("init", 0, 0, FALSE, << >>, {})
  /\ SummaryUnmounted
  /\ SavedUnmounted
  /\ CalcIdle
  /\ RoundIdle
  /\ \/ ListUnmounted /\ LogOpened /\ GoalsUnmounted
     \/ ListOpened /\ FormsUnmounted /\ GoalsUnmounted
     \/ ListUnmounted /\ FormsUnmounted /\ GoalsOpened

\* ------------------------------------------------------------- totals steps
\* The callback is applied to the same list again.
Calculate ==
  /\ totalsOutput' = DailyTotals(totalsInput)
  /\ last' = Step("calculate", 0, 0, FALSE, << >>, {})
  /\ UNCHANGED << now, zone, listVars, besideCalc, totalsInput >>

\* The callback is applied to the list in another order.
Reorder(p) ==
  /\ Permuted(totalsInput, p) # totalsInput
  /\ totalsInput' = Permuted(totalsInput, p)
  /\ totalsOutput' = DailyTotals(totalsInput')
  /\ last' = Step("reorder", 0, 0, FALSE, << >>, {})
  /\ UNCHANGED << now, zone, listVars, besideCalc >>

\* The callback has been applied to a list.
InitTotals ==
  /\ now = 0
  /\ zone = 0
  /\ ListUnmounted
  /\ SummaryUnmounted
  /\ SavedUnmounted
  /\ FormsUnmounted
  /\ GoalsUnmounted
  /\ RoundIdle
  /\ totalsInput \in TotalsLists
  /\ totalsOutput = DailyTotals(totalsInput)
  /\ last = Step("init", 0, 0, FALSE, << >>, {})

\* ------------------------------------------------------------- edit form steps
\* The modal renders the form for the entry: the useState initial values.
RenderEditForm ==
  /\ editEntry # << >> /\ editFields = << >>
  /\ editFields' = << EditFieldsOf(editEntry[1]) >>
  /\ last' = Step("renderEdit", 0, 0, FALSE, << >>, {})
  /\ UNCHANGED << now, zone, listVars, besideRound, editEntry, editSaved >>

\* The form is submitted with its fields as they are (the button is
\* disabled while the form is loading): the browser checks the inputs;
\* handleSubmit clears the message, sets isLoading and checks the parsed
\* fields; a check that fails sets the message and clears isLoading, and
\* otherwise onSave is called and awaited.
SaveUnchanged ==
  /\ editFields # << >> /\ editSaved = << >> /\ ~editLoading
  /\ last.op # "saveUnchanged"
  /\ IF ~EditInputsValid(editFields[1])
     THEN UNCHANGED << editSaved, editLoading, editErrorMessage >>
     ELSE IF EditFieldsRejected(editFields[1])
     THEN /\ editErrorMessage' = "invalid"
          /\ editLoading' = FALSE
          /\ UNCHANGED editSaved
     ELSE /\ editErrorMessage' = NoMessage
          /\ editLoading' = TRUE
          /\ editSaved' = << updatedData(editEntry[1], editFields[1]) >>
  /\ last' = Step("saveUnchanged", 0, 0, FALSE, << >>, {})
  /\ UNCHANGED << now, zone, listVars, summaryVars, savedVars, goalsVars,
                  calcVars, logMounted, logLoading, logMessage, logRequests,
                  logTimers, editEntry, editFields >>

\* onSave returns or throws: the catch block sets the message, the finally
\* block clears isLoading.
SaveReturned(threw) ==
  /\ editSaved # << >> /\ editLoading
  /\ editLoading' = FALSE
  /\ editErrorMessage' = IF threw THEN "failed" ELSE editErrorMessage
  /\ last' = Step("saveReturned", 0, 0, FALSE, << >>, {})
  /\ UNCHANGED << now, zone, listVars, summaryVars, savedVars, goalsVars,
                  calcVars, logMounted, logLoading, logMessage, logRequests,
                  logTimers, roundVars >>

\* The form is about to be rendered for an entry.
InitRound ==
  /\ now = 0
  /\ zone = 0
  /\ ListUnmounted
  /\ SummaryUnmounted
  /\ SavedUnmounted
  /\ FormsUnmounted
  /\ GoalsUnmounted
  /\ CalcIdle
  /\ \E entry \in RoundEntries : editEntry = << entry >>
  /\ editFields = << >>
  /\ editSaved = << >>
  /\ last = Step("init", 0, 0, FALSE, << >>, {})

\* ------------------------------------------------------------- specification
\* Every step of the view and of its environment.  NextSync and NextEdit
\* below are the two parts of Next that are explored exhaustively.
Next ==
  \/ Tick
  \/ \E f \in Foods, back \in 0..MaxBack, at \in (now - MaxDelay)..now :
       InsertEntry(f, back, at)
  \/ \E i \in 1..Len(requests) : ServerFetch(i)
  \/ \E i \in 1..Len(requests) : ServerApply(i)
  \/ \E i \in 1..Len(channels) : RemoveChannelDone(i)
  \/ \E i \in 1..Len(channels) : Deliver(i)
  \/ \E i \in 1..Len(requests) : LoadOk(i)
  \/ \E i \in 1..Len(requests) : LoadFail(i)
  \/ goToPreviousDay
  \/ goToNextDay
  \/ goToToday
  \/ SessionChange
  \/ \E i \in 1..Len(entries) : requestDeleteEntry(i)
  \/ cancelDelete
  \/ confirmDeleteEntry
  \/ \E i \in 1..Len(requests) : DeleteOk(i)
  \/ \E i \in 1..Len(requests) : DeleteFail(i)
  \/ ErrorTimeout
  \/ \E i \in 1..Len(entries) : handleOpenEditModal(i)
  \/ handleCloseEditModal
  \/ \E f \in Foods : handleUpdateEntry(f)
  \/ \E i \in 1..Len(requests) : UpdateOk(i)
  \/ \E i \in 1..Len(requests) : UpdateFail(i)
  \/ Unmount
  \/ Mount
  \/ Midnight
  \/ \E i \in 1..Len(calls), data \in SummaryRows : WeeklyOk(i, data)
  \/ \E i \in 1..Len(calls) : WeeklyFail(i)
  \/ \E i \in 1..Len(calls), data \in SummaryRows : MonthlyOk(i, data)
  \/ \E i \in 1..Len(calls) : MonthlyFail(i)
  \/ \E offset \in {0 - 1, 1} : changeWeek(offset)
  \/ \E offset \in {0 - 1, 1} : changeMonth(offset)
  \/ \E tab \in {"weekly", "monthly"} : setActiveTab(tab)
  \/ \E i \in 1..Len(savedRequests) : SavedServer(i)
  \/ \E i \in 1..Len(savedRequests) : SavedFetchOk(i)
  \/ \E i \in 1..Len(savedRequests) : SavedFetchFail(i)
  \/ toggleForm
  \/ \E form \in SavedForms : handleInputChange(form)
  \/ handleFormSubmit
  \/ \E i \in 1..Len(savedRequests) : SavedInsertDone(i)
  \/ \E i \in 1..Len(savedRequests) : SavedUpdateDone(i)
  \/ \E i \in 1..Len(savedRequests) : SavedSaveFail(i)
  \/ \E k \in 1..Len(savedFoods) : handleEditFood(k)
  \/ \E k \in 1..Len(savedFoods) : requestDeleteSavedFood(k)
  \/ cancelSavedDelete
  \/ confirmDeleteSavedFood
  \/ \E i \in 1..Len(savedRequests) : SavedDeleteOk(i)
  \/ \E i \in 1..Len(savedRequests) : SavedDeleteFail(i)
  \/ MessageTimeout
  \/ \E k \in 1..Len(FoodNames) : SavedElsewhere(FoodNames[k])
  \/ \E form \in EntryForms, back \in 0..MaxBack : LogSubmit(form, back)
  \/ \E i \in 1..Len(logRequests) : LogServer(i)
  \/ \E i \in 1..Len(logRequests) : LogInsertDone(i)
  \/ \E i \in 1..Len(logRequests) : LogInsertFail(i)
  \/ LogMessageTimeout
  \/ \E form \in EntryForms : EditSubmit(form)
  \/ GoalsTryAgain
  \/ \E i \in 1..Len(goalsCalls) : GoalsServer(i)
  \/ \E i \in 1..Len(goalsRequests) : GoalsFormServer(i)
  \/ \E i \in 1..Len(goalsCalls) : GoalsSelectDone(i)
  \/ \E i \in 1..Len(goalsCalls) : GoalsCallFail(i)
  \/ \E i \in 1..Len(goalsCalls) : GoalsInsertDone(i)
  \/ OpenGoalsForm
  \/ CloseGoalsForm
  \/ \E i \in 1..Len(goalsRequests) : GoalsCurrentDone(i)
  \/ \E i \in 1..Len(goalsRequests) : GoalsCurrentFail(i)
  \/ \E form \in GoalsForms : GoalsSubmit(form)
  \/ \E i \in 1..Len(goalsRequests) : GoalsUpsertDone(i)
  \/ \E i \in 1..Len(goalsRequests) : GoalsUpsertFail(i)
  \/ GoalsCloseTimeout
  \/ Calculate
  \/ \E p \in Permutations(1..Len(totalsInput)) : Reorder(p)
  \/ RenderEditForm
  \/ SaveUnchanged
  \/ \E threw \in BOOLEAN : SaveReturned(threw)

Spec == Init /\ [][Next]_vars

\* The browser is in UTC.
InitUTC == Init /\ zone = 0

\* The view under loads, navigation and realtime events, at one instant.
NextSync ==
  \/ \E f \in { g \in Foods : g.quantity = << 1 >> }, back \in 0..MaxBack :
       InsertEntry(f, back, now)
  \/ \E i \in 1..Len(requests) : ServerFetch(i)
  \/ \E i \in 1..Len(channels) : RemoveChannelDone(i)
  \/ \E i \in 1..Len(channels) : Deliver(i)
  \/ \E i \in 1..Len(requests) : LoadOk(i)
  \/ \E i \in 1..Len(requests) : LoadFail(i)
  \/ goToPreviousDay
  \/ goToNextDay
  \/ goToToday
  \/ SessionChange
  \/ Unmount
  \/ Mount

SpecSync == InitUTC /\ [][NextSync]_vars

\* The view in every time zone while the clock advances: rows are logged for
\* today and for the day before, events arrive and the user moves between
\* the days.
NextZone ==
  \/ Tick
  \/ \E f \in { g \in Foods : g.quantity = << 1 >> }, back \in 0..MaxBack,
        at \in (now - MaxDelay)..now : InsertEntry(f, back, at)
  \/ \E i \in 1..Len(requests) : ServerFetch(i)
  \/ \E i \in 1..Len(channels) : RemoveChannelDone(i)
  \/ \E i \in 1..Len(channels) : Deliver(i)
  \/ \E i \in 1..Len(requests) : LoadOk(i)
  \/ goToPreviousDay
  \/ goToNextDay
  \/ goToToday

SpecZone == Init /\ [][NextZone]_vars

\* The view under edits and deletes of the entries it has loaded: entries
\* whose calories are 1 or the first whole number whose successor is not a
\* floating point number are logged; the first held entry is deleted and the
\* last one edited, to the food of quantity 1 with its blank macros.
NextEdit ==
  \/ \E f \in { g \in TotalsFoods : g.protein = Null /\ g.quantity = << 1 >> } :
       InsertEntry(f, 0, now)
  \/ \E i \in 1..Len(requests) : ServerFetch(i)
  \/ \E i \in 1..Len(requests) : ServerApply(i)
  \/ \E i \in 1..Len(channels) : Deliver(i)
  \/ \E i \in 1..Len(requests) : LoadOk(i)
  \/ \E i \in 1..Len(requests) : LoadFail(i)
  \/ \E i \in {1} \cap (1..Len(entries)) : requestDeleteEntry(i)
  \/ confirmDeleteEntry
  \/ \E i \in 1..Len(requests) : DeleteOk(i)
  \/ \E i \in 1..Len(requests) : DeleteFail(i)
  \/ \E i \in {Len(entries)} \cap (1..Len(entries)) : handleOpenEditModal(i)
  \/ \E f \in { g \in Foods : g.quantity = << 1 >> } : handleUpdateEntry(f)
  \/ \E i \in 1..Len(requests) : UpdateOk(i)
  \/ \E i \in 1..Len(requests) : UpdateFail(i)

SpecEdit == InitUTC /\ [][NextEdit]_vars

\* The view under deletes of the entries it has loaded.
NextDelete ==
  \/ \E f \in Foods, back \in 0..MaxBack, at \in (now - MaxDelay)..now :
       InsertEntry(f, back, at)
  \/ \E i \in 1..Len(requests) : ServerFetch(i)
  \/ \E i \in 1..Len(requests) : ServerApply(i)
  \/ \E i \in 1..Len(channels) : Deliver(i)
  \/ \E i \in 1..Len(requests) : LoadOk(i)
  \/ \E i \in 1..Len(requests) : LoadFail(i)
  \/ \E i \in 1..Len(entries) : requestDeleteEntry(i)
  \/ cancelDelete
  \/ confirmDeleteEntry
  \/ \E i \in 1..Len(requests) : DeleteOk(i)
  \/ \E i \in 1..Len(requests) : DeleteFail(i)
  \/ ErrorTimeout

SpecDelete == InitUTC /\ [][NextDelete]_vars

\* The view under edits in the modal of the first entry of the list it has
\* loaded.
NextModal ==
  \/ \E f \in { g \in Foods : g.quantity = << 1 >> } : InsertEntry(f, 0, now)
  \/ \E i \in 1..Len(requests) : ServerFetch(i)
  \/ \E i \in 1..Len(requests) : ServerApply(i)
  \/ \E i \in 1..Len(channels) : Deliver(i)
  \/ \E i \in 1..Len(requests) : LoadOk(i)
  \/ \E i \in 1..Len(requests) : LoadFail(i)
  \/ \E i \in {1} \cap (1..Len(entries)) : handleOpenEditModal(i)
  \/ handleCloseEditModal
  \/ \E f \in Foods : handleUpdateEntry(f)
  \/ \E i \in 1..Len(requests) : UpdateOk(i)
  \/ \E i \in 1..Len(requests) : UpdateFail(i)

SpecModal == InitUTC /\ [][NextModal]_vars

\* The summary view.
NextSummary ==
  \/ Midnight
  \/ SessionChange
  \/ \E i \in 1..Len(calls), data \in SummaryRows : WeeklyOk(i, data)
  \/ \E i \in 1..Len(calls) : WeeklyFail(i)
  \/ \E i \in 1..Len(calls), data \in SummaryRows : MonthlyOk(i, data)
  \/ \E i \in 1..Len(calls) : MonthlyFail(i)
  \/ \E offset \in {0 - 1, 1} : changeWeek(offset)
  \/ \E offset \in {0 - 1, 1} : changeMonth(offset)
  \/ \E tab \in {"weekly", "monthly"} : setActiveTab(tab)

SpecSummary == InitSummary /\ [][NextSummary]_vars

\* The saved foods of the log page.
NextSaved ==
  \/ \E i \in 1..Len(savedRequests) : SavedServer(i)
  \/ \E i \in 1..Len(savedRequests) : SavedFetchOk(i)
  \/ \E i \in 1..Len(savedRequests) : SavedFetchFail(i)
  \/ toggleForm
  \/ \E form \in SavedForms : handleInputChange(form)
  \/ handleFormSubmit
  \/ \E i \in 1..Len(savedRequests) : SavedInsertDone(i)
  \/ \E i \in 1..Len(savedRequests) : SavedUpdateDone(i)
  \/ \E i \in 1..Len(savedRequests) : SavedSaveFail(i)
  \/ \E k \in 1..Len(savedFoods) : handleEditFood(k)
  \/ \E k \in 1..Len(savedFoods) : requestDeleteSavedFood(k)
  \/ cancelSavedDelete
  \/ confirmDeleteSavedFood
  \/ \E i \in 1..Len(savedRequests) : SavedDeleteOk(i)
  \/ \E i \in 1..Len(savedRequests) : SavedDeleteFail(i)
  \/ MessageTimeout
  \/ \E k \in 1..Len(FoodNames) : SavedElsewhere(FoodNames[k])

SpecSaved == InitSaved /\ [][NextSaved]_vars

\* The entry view while the clock advances: what changes the held list
\* (entries of quantity 1 are logged; the user deletes the first entry of the
\* list and edits the last one to the food of quantity 2).
NextOrder ==
  \/ Tick
  \/ \E f \in { g \in Foods : g.quantity = << 1 >> }, at \in (now - MaxDelay)..now :
       InsertEntry(f, 0, at)
  \/ \E i \in 1..Len(requests) : ServerFetch(i)
  \/ \E i \in 1..Len(requests) : ServerApply(i)
  \/ \E i \in 1..Len(channels) : Deliver(i)
  \/ \E i \in 1..Len(requests) : LoadOk(i)
  \/ \E i \in {1} \cap (1..Len(entries)) : requestDeleteEntry(i)
  \/ confirmDeleteEntry
  \/ \E i \in 1..Len(requests) : DeleteOk(i)
  \/ \E i \in {Len(entries)} \cap (1..Len(entries)) : handleOpenEditModal(i)
  \/ \E f \in { g \in Foods : g.quantity = << 2 >> } : handleUpdateEntry(f)
  \/ \E i \in 1..Len(requests) : UpdateOk(i)

SpecOrder == InitUTC /\ [][NextOrder]_vars

\* The forms: the log form, the edit modal of the entry view, opened for the
\* first entry of the list, with the steps that bring an entry into the view,
\* and the goals form.
NextForms ==
  \/ \E f \in { g \in Foods : g.quantity = << 1 >> } : InsertEntry(f, 0, now)
  \/ \E i \in 1..Len(requests) : ServerFetch(i)
  \/ \E i \in 1..Len(requests) : ServerApply(i)
  \/ \E i \in 1..Len(requests) : LoadOk(i)
  \/ \E i \in {1} \cap (1..Len(entries)) : handleOpenEditModal(i)
  \/ handleCloseEditModal
  \/ \E i \in 1..Len(requests) : UpdateOk(i)
  \/ \E i \in 1..Len(requests) : UpdateFail(i)
  \/ \E form \in EntryForms : LogSubmit(form, 0)
  \/ \E i \in 1..Len(logRequests) : LogServer(i)
  \/ \E i \in 1..Len(logRequests) : LogInsertDone(i)
  \/ \E i \in 1..Len(logRequests) : LogInsertFail(i)
  \/ LogMessageTimeout
  \/ \E form \in EntryForms : EditSubmit(form)
  \/ \E i \in 1..Len(goalsRequests) : GoalsFormServer(i)
  \/ OpenGoalsForm
  \/ CloseGoalsForm
  \/ \E i \in 1..Len(goalsRequests) : GoalsCurrentDone(i)
  \/ \E i \in 1..Len(goalsRequests) : GoalsCurrentFail(i)
  \/ \E form \in GoalsForms : GoalsSubmit(form)
  \/ \E i \in 1..Len(goalsRequests) : GoalsUpsertDone(i)
  \/ \E i \in 1..Len(goalsRequests) : GoalsUpsertFail(i)
  \/ GoalsCloseTimeout

SpecForms == InitForms /\ [][NextForms]_vars

\* The goals card and the goals form, submitted with fields its inputs
\* allow.
NextGoals ==
  \/ SessionChange
  \/ GoalsTryAgain
  \/ \E i \in 1..Len(goalsCalls) : GoalsServer(i)
  \/ \E i \in 1..Len(goalsRequests) : GoalsFormServer(i)
  \/ \E i \in 1..Len(goalsCalls) : GoalsSelectDone(i)
  \/ \E i \in 1..Len(goalsCalls) : GoalsCallFail(i)
  \/ \E i \in 1..Len(goalsCalls) : GoalsInsertDone(i)
  \/ OpenGoalsForm
  \/ CloseGoalsForm
  \/ \E i \in 1..Len(goalsRequests) : GoalsCurrentDone(i)
  \/ \E i \in 1..Len(goalsRequests) : GoalsCurrentFail(i)
  \/ \E form \in { g \in GoalsForms : GoalsConstraintsValid(g) } :
       GoalsSubmit(form)
  \/ \E i \in 1..Len(goalsRequests) : GoalsUpsertDone(i)
  \/ \E i \in 1..Len(goalsRequests) : GoalsUpsertFail(i)
  \/ GoalsCloseTimeout

SpecGoals == InitForms /\ [][NextGoals]_vars

\* The totals computation on its own.
NextTotals ==
  \/ Calculate
  \/ \E p \in Permutations(1..Len(totalsInput)) : Reorder(p)

SpecTotals == InitTotals /\ [][NextTotals]_vars

\* The entry view while an update is in flight and the user moves to another
\* day (entries of quantity 1 are logged, and edited to the food of quantity 2).
NextUpdate ==
  \/ \E f \in { g \in Foods : g.quantity = << 1 >> }, back \in 0..MaxBack,
        at \in (now - MaxDelay)..now : InsertEntry(f, back, at)
  \/ \E i \in 1..Len(requests) : ServerFetch(i)
  \/ \E i \in 1..Len(requests) : ServerApply(i)
  \/ \E i \in 1..Len(channels) : RemoveChannelDone(i)
  \/ \E i \in 1..Len(requests) : LoadOk(i)
  \/ goToPreviousDay
  \/ goToNextDay
  \/ \E i \in 1..Len(entries) : handleOpenEditModal(i)
  \/ handleCloseEditModal
  \/ \E f \in { g \in Foods : g.quantity = << 2 >> } : handleUpdateEntry(f)
  \/ \E i \in 1..Len(requests) : UpdateOk(i)
  \/ \E i \in 1..Len(requests) : UpdateFail(i)
  \/ Unmount
  \/ Mount

SpecUpdate == InitUTC /\ [][NextUpdate]_vars

\* The log form and the edit form submitted with blank, negative, zero and
\* positive quantities and macros.
NextRows ==
  \/ \E f \in { g \in Foods : g.quantity = << 1 >> }, at \in (now - MaxDelay)..now :
       InsertEntry(f, 0, at)
  \/ \E i \in 1..Len(requests) : ServerFetch(i)
  \/ \E i \in 1..Len(requests) : ServerApply(i)
  \/ \E i \in 1..Len(requests) : LoadOk(i)
  \/ \E i \in 1..Len(entries) : handleOpenEditModal(i)
  \/ \E i \in 1..Len(requests) : UpdateOk(i)
  \/ \E i \in 1..Len(requests) : UpdateFail(i)
  \/ \E form \in RowForms : LogSubmit(form, 0)
  \/ \E i \in 1..Len(logRequests) : LogServer(i)
  \/ \E i \in 1..Len(logRequests) : LogInsertDone(i)
  \/ \E i \in 1..Len(logRequests) : LogInsertFail(i)
  \/ LogMessageTimeout
  \/ \E form \in RowForms : EditSubmit(form)

SpecRows == InitForms /\ [][NextRows]_vars

\* The summary view while the user changes the week and the month and the
\* backend answers each call with the rows of the period it names.
NextOverlap ==
  \/ \E i \in 1..Len(calls) : WeeklyOk(i, WeeklyResponse(calls[i]))
  \/ \E i \in 1..Len(calls) : MonthlyOk(i, MonthlyResponse(calls[i]))
  \/ \E offset \in {0 - 1, 1} : changeWeek(offset)
  \/ \E offset \in {0 - 1, 1} : changeMonth(offset)
  \/ \E tab \in {"weekly", "monthly"} : setActiveTab(tab)

SpecOverlap == InitSummary /\ [][NextOverlap]_vars

\* The form of the edit modal on its own.
NextRound ==
  \/ RenderEditForm
  \/ SaveUnchanged
  \/ \E threw \in BOOLEAN : SaveReturned(threw)

SpecRound == InitRound /\ [][NextRound]_vars

\* One of the pages is opened (the entry view, the summary view, the saved
\* foods, the log form or the goals card), and its loads and saves run: every
\* remote call that was issued returns a result or an error.  The session
\* changes while at most MaxLiveGoalsCalls calls of the goals card are in
\* flight; one entry is logged while the entry view is open, and it is
\* edited once the view has loaded it.
InitLive == InitUTC \/ InitSummary \/ InitSaved \/ InitForms

NextLive ==
  \/ \E f \in { g \in Foods : g.quantity = << 1 >> } :
       mounted /\ nextId = 1 /\ InsertEntry(f, 0, now)
  \/ \E i \in 1..Len(requests) : ServerFetch(i)
  \/ \E i \in 1..Len(requests) : ServerApply(i)
  \/ \E i \in 1..Len(channels) : RemoveChannelDone(i)
  \/ \E i \in 1..Len(requests) : LoadOk(i)
  \/ \E i \in 1..Len(requests) : LoadFail(i)
  \/ \E i \in 1..Len(entries) : handleOpenEditModal(i)
  \/ \E form \in { g \in EntryForms : /\ g.food_name = "apple"
                                         /\ g.calories = << 200 >>
                                         /\ g.quantity = << 1 >> } :
       EditSubmit(form)
  \/ \E i \in 1..Len(requests) : UpdateOk(i)
  \/ \E i \in 1..Len(requests) : UpdateFail(i)
  \/ goToPreviousDay
  \/ goToNextDay
  \/ Len(goalsCalls) < MaxLiveGoalsCalls /\ SessionChange
  \/ \E i \in 1..Len(calls) : WeeklyOk(i, << >>)
  \/ \E i \in 1..Len(calls) : WeeklyFail(i)
  \/ \E i \in 1..Len(calls) : MonthlyOk(i, << >>)
  \/ \E i \in 1..Len(calls) : MonthlyFail(i)
  \/ \E offset \in {0 - 1, 1} : changeWeek(offset)
  \/ \E i \in 1..Len(savedRequests) : SavedServer(i)
  \/ \E i \in 1..Len(savedRequests) : SavedFetchOk(i)
  \/ \E i \in 1..Len(savedRequests) : SavedFetchFail(i)
  \/ toggleForm
  \/ \E form \in { g \in SavedForms : /\ g.food_name = "apple"
                                         /\ g.protein = Null } :
       handleInputChange(form)
  \/ handleFormSubmit
  \/ \E i \in 1..Len(savedRequests) : SavedInsertDone(i)
  \/ \E i \in 1..Len(savedRequests) : SavedUpdateDone(i)
  \/ \E i \in 1..Len(savedRequests) : SavedSaveFail(i)
  \/ \E k \in 1..Len(savedFoods) : handleEditFood(k)
  \/ MessageTimeout
  \/ \E form \in { g \in EntryForms : /\ g.food_name = "apple"
                                         /\ g.calories = << 200 >>
                                         /\ g.quantity = << 1 >> } :
       LogSubmit(form, 0)
  \/ \E i \in 1..Len(logRequests) : LogServer(i)
  \/ \E i \in 1..Len(logRequests) : LogInsertDone(i)
  \/ \E i \in 1..Len(logRequests) : LogInsertFail(i)
  \/ LogMessageTimeout
  \/ GoalsTryAgain
  \/ \E i \in 1..Len(goalsCalls) : GoalsServer(i)
  \/ \E i \in 1..Len(goalsRequests) : GoalsFormServer(i)
  \/ \E i \in 1..Len(goalsCalls) : GoalsSelectDone(i)
  \/ \E i \in 1..Len(goalsCalls) : GoalsCallFail(i)
  \/ \E i \in 1..Len(goalsCalls) : GoalsInsertDone(i)
  \/ OpenGoalsForm
  \/ \E i \in 1..Len(goalsRequests) : GoalsCurrentDone(i)
  \/ \E i \in 1..Len(goalsRequests) : GoalsCurrentFail(i)
  \/ GoalsSubmit(DefaultGoals)
  \/ \E i \in 1..Len(goalsRequests) : GoalsUpsertDone(i)
  \/ \E i \in 1..Len(goalsRequests) : GoalsUpsertFail(i)
  \/ GoalsCloseTimeout

\* Every remote call in flight returns: the backend processes the oldest
\* call of each view and its response, a result or an error, is handled (the
\* others may be answered before it, in any order); a timer that was armed
\* fires.
Returns ==
  /\ WF_vars(requests # << >> /\ (ServerFetch(1) \/ ServerApply(1)))
  /\ WF_vars(requests # << >> /\
               (LoadOk(1) \/ LoadFail(1) \/ UpdateOk(1) \/ UpdateFail(1)))
  /\ WF_vars(calls # << >> /\
               (\/ WeeklyOk(1, << >>) \/ MonthlyOk(1, << >>)
                \/ WeeklyFail(1) \/ MonthlyFail(1)))
  /\ WF_vars(savedRequests # << >> /\ SavedServer(1))
  /\ WF_vars(savedRequests # << >> /\
               (\/ SavedFetchOk(1) \/ SavedFetchFail(1) \/ SavedInsertDone(1)
                \/ SavedUpdateDone(1) \/ SavedSaveFail(1)))
  /\ WF_vars(MessageTimeout)
  /\ WF_vars(logRequests # << >> /\ LogServer(1))
  /\ WF_vars(logRequests # << >> /\ (LogInsertDone(1) \/ LogInsertFail(1)))
  /\ WF_vars(LogMessageTimeout)
  /\ WF_vars(goalsCalls # << >> /\ GoalsServer(1))
  /\ WF_vars(goalsCalls # << >> /\
               (GoalsSelectDone(1) \/ GoalsCallFail(1) \/ GoalsInsertDone(1)))
  /\ WF_vars(goalsRequests # << >> /\ GoalsFormServer(1))
  /\ WF_vars(goalsRequests # << >> /\
               (\/ GoalsCurrentDone(1) \/ GoalsCurrentFail(1)
                \/ GoalsUpsertDone(1) \/ GoalsUpsertFail(1)))
  /\ WF_vars(GoalsCloseTimeout)

SpecLive == InitLive /\ [][NextLive]_vars /\ Returns

\* ------------------------------------------------------------- claims
\* The sum over a list of (field x quantity), an absent field counted as 0.
Macro(entry, field) == IF entry[field] = Null THEN 0 ELSE entry[field][1]

RECURSIVE SumOf(_, _)
SumOf(list, field) ==
  IF list = << >> THEN 0
  ELSE Macro(Head(list), field) * Head(list).quantity[1]
         + SumOf(Tail(list), field)

\* C1: in every reachable state dailyTotals is, for each of calories, protein,
\* carbs and fats, the sum over the held entries of (field x quantity), absent
\* macros counted as 0, for entries with quantity > 0.
C1_TotalsAreSum ==
  (\A i \in 1..Len(entries) : entries[i].quantity[1] > 0) =>
    dailyTotals = [calories |-> SumOf(entries, "calories"),
                   protein |-> SumOf(entries, "protein"),
                   carbs |-> SumOf(entries, "carbs"),
                   fats |-> SumOf(entries, "fats")]

OfDisplayedDate(list) ==
  \A i \in 1..Len(list) :
    formatDate(list[i].created_at) = formatDate(displayedDate)

\* C2: once a load response has been committed and no load is in flight, the
\* held entries belong to the displayed date (a response for another date is
\* discarded).
C2_StaleResponseDiscarded ==
  (mounted /\ last.op = "loadOk" /\ Loads = {}) => OfDisplayedDate(entries)

\* C3: no entry id appears more than once in the held entries.
C3_NoDuplicateIds == \A rid \in Ids(entries) : Count(entries, rid) = 1

\* C4: an entry of the displayed day merged by a realtime event while a load
\* of that day was in flight, still in the table and within the range the load
\* queries, is held after that load's response has been committed.
C4_MergedEntrySurvivesLoad ==
  (last.op = "loadOk" /\ last.day = formatDate(displayedDate)) =>
    \A rid \in last.seen :
      (\E r \in db : r.id = rid /\ r.created_at <= dayEnd(last.day)) =>
        rid \in Ids(entries)

\* C5: a realtime INSERT event whose row's date differs from the displayed
\* date leaves the held entries, the totals, the loading flag and the error
\* flag unchanged.
C5_OtherDayEventIgnored ==
  [][(last'.op = "deliver" /\ last'.day # formatDate(displayedDate)) =>
       /\ entries' = entries
       /\ dailyTotals' = dailyTotals
       /\ loading' = loading
       /\ error' = error]_vars

EventMerged ==
  /\ Len(entries') = Len(entries) + 1
  /\ Count(entries', last'.id) = Count(entries, last'.id) + 1

\* C6 as stated: for any displayed date, every realtime INSERT event whose
\* row's date equals the displayed date is merged into the held entries.
C6_SameDayEventMerged ==
  [][(mounted /\ last'.op = "deliver" /\ last'.cur
      /\ last'.day = formatDate(displayedDate)) => EventMerged]_vars

\* C6 amended: while the displayed date is today, every realtime INSERT event
\* that the subscription of the displayed date handles and whose row's date
\* equals the displayed date is merged into the held entries.
C6_SameDayEventMergedToday ==
  [][(mounted /\ last'.op = "deliver" /\ last'.cur
      /\ isToday(displayedDate, now)
      /\ last'.day = formatDate(displayedDate)) => EventMerged]_vars

C6_Witness ==
  /\ mounted /\ last.op = "deliver" /\ last.cur
  /\ isToday(displayedDate, now)
  /\ last.day = formatDate(displayedDate)
  /\ last.id \in Ids(entries)

\* C7: at every moment at most one realtime subscription of the view exists
\* (the previous channel is gone before the next one is created).
C7_AtMostOneSubscription == Len(channels) <= 1

\* C8: a successful load leaves exactly the fetched rows held, a failed load
\* leaves no entry held and the error set; both clear the loading flag.
C8_LoadReplacesOrClears ==
  /\ last.op = "loadOk" =>
       entries = last.data /\ dailyTotals = DailyTotals(last.data) /\ ~loading
  /\ last.op = "loadFail" =>
       entries = << >> /\ error # NoError /\ ~loading

\* A load response has replaced a held set that was not empty.
C8_Witness ==
  /\ last.op = "loadOk" /\ last.id > 0
  /\ entries = last.data
  /\ ~loading

\* C9: sending the remote delete and a failed remote delete leave the held
\* entries unchanged (the failure sets the error); an id leaves the held
\* entries only by the successful delete of that id or by a load response.
C9_NoOptimisticRemoval ==
  [][/\ last'.op = "confirmDelete" => entries' = entries
     /\ last'.op = "deleteFail" => entries' = entries /\ error' # NoError
     /\ \A rid \in Ids(entries) \ Ids(entries') :
          \/ last'.op \in {"loadOk", "loadFail", "unmount"}
          \/ last'.op = "deleteOk" /\ last'.id = rid]_vars

\* A remote delete failed and the entry is still held, with the error set.
C9_Witness ==
  last.op = "deleteFail" /\ last.id \in Ids(entries) /\ error = "delete"

\* C10: when the remote update fails while the edit modal is shown, the held
\* entries are unchanged, the error is set, and the edit modal is still shown
\* with the same entry, so that the edit can be retried.
C10_FailedUpdateKeepsModal ==
  [][(last'.op = "updateFail" /\ EditModalRendered) =>
       /\ entries' = entries
       /\ error' # NoError
       /\ entryToEdit' = entryToEdit
       /\ EditModalRendered']_vars

\* C11: a weekly or monthly summary request for which the backend returns an
\* empty result set leaves a held summary with entry_count 0, days_logged 0
\* and the four totals 0; the held summary is not null after it.
C11_EmptyPeriodGivesZeroSummary ==
  /\ (last.op = "weeklyOk" /\ last.data = << >>) =>
       weeklySummary = << ZeroSummary >>
  /\ (last.op = "monthlyOk" /\ last.data = << >>) =>
       monthlySummary = << ZeroSummary >>

\* Both requests of one period came back empty.
C11_Witness ==
  /\ last.op = "monthlyOk" /\ last.data = << >>
  /\ weeklySummary = << ZeroSummary >>
  /\ monthlySummary = << ZeroSummary >>

\* The error state a failure of the weekly or of the monthly request is
\* written to, reported from and cleared in: the view holds one state for
\* both requests (useState error).
ErrorOf(source) == summaryError

\* C12: the weekly and the monthly request are independent.  A failure of
\* the weekly request is followed by the monthly request of the same call and
\* leaves the held monthly summary as it was, and a failure of the monthly
\* request leaves the held weekly summary as it was.  Each request has its
\* own loading flag and its own error flag: the step that handles the
\* response of one request clears its own loading flag, reports its own
\* failure, and leaves the loading flag and the error flag of the other
\* request as they were; and the error flag of a request is cleared only by
\* a step that issues that request.
C12_SummariesIndependent ==
  [][LET IssuesWeekly ==
           /\ Len(calls') = Len(calls) + 1
           /\ calls'[Len(calls')].awaiting = "weekly"
         IssuesMonthly ==
           \E i \in 1..Len(calls) :
             /\ calls[i].awaiting = "weekly"
             /\ calls' = [calls EXCEPT ![i].awaiting = "monthly"]
     IN /\ last'.op \in {"weeklyOk", "weeklyFail"} =>
             /\ monthlySummary' = monthlySummary
             /\ loadingMonthly' = loadingMonthly
             /\ ErrorOf("Monthly Summary")' = ErrorOf("Monthly Summary")
             /\ ~loadingWeekly'
             /\ IssuesMonthly
        /\ last'.op \in {"monthlyOk", "monthlyFail"} =>
             /\ weeklySummary' = weeklySummary
             /\ loadingWeekly' = loadingWeekly
             /\ ErrorOf("Weekly Summary")' = ErrorOf("Weekly Summary")
             /\ ~loadingMonthly'
        /\ last'.op = "weeklyFail" => ErrorOf("Weekly Summary")' # << >>
        /\ last'.op = "monthlyFail" => ErrorOf("Monthly Summary")' # << >>
        /\ (ErrorOf("Weekly Summary") # << >>
              /\ ErrorOf("Weekly Summary")' = << >>) => IssuesWeekly
        /\ (ErrorOf("Monthly Summary") # << >>
              /\ ErrorOf("Monthly Summary")' = << >>) => IssuesMonthly]_vars

\* C13: for the week and for the month, whenever the view has rendered, the
\* next button (of the tab that is shown) is disabled exactly when the
\* period it would select lies after the current one; and the displayed week
\* and month are never in the future.
C13_NextDisabledIffFuture ==
  summaryMounted =>
    /\ (last.op # "midnight" /\ activeTab = "weekly") =>
         (renderedCurrent <=>
            StartOfWeek(setDate(currentWeekDate, getDate(currentWeekDate) + 7))
              > StartOfWeek(now))
    /\ (last.op # "midnight" /\ activeTab = "monthly") =>
         (renderedCurrent <=>
            MonthIndex(setMonth(currentMonthDate, getMonth(currentMonthDate) + 1))
              > MonthIndex(now))
    /\ StartOfWeek(currentWeekDate) <= StartOfWeek(now)
    /\ MonthIndex(currentMonthDate) <= MonthIndex(now)

\* C14: the backend refuses an insert or a rename of a saved food whose name
\* another saved food of the user already has, and leaves the stored foods
\* as they are; when that answer arrives the duplicate-name message (not the
\* generic failure) is shown, the held list and the stored foods are
\* unchanged, the form is neither closed nor emptied, and the saving flag is
\* cleared.
C14_DuplicateNameRejected ==
  [][ /\ \A i \in 1..Len(savedRequests) :
           ( /\ last'.op = "savedServer"
             /\ savedRequests[i].kind \in {"insert", "update"}
             /\ savedRequests[i].state = "sent"
             /\ savedRequests' # savedRequests
             /\ savedRequests'[i].state = "answered"
             /\ NameTaken(savedDb, savedRequests[i].id,
                          savedRequests[i].data.food_name)
             /\ savedRequests[i].kind = "update" =>
                  \E r \in savedDb : r.id = savedRequests[i].id )
           => /\ savedRequests'[i].result.status = "duplicate"
              /\ savedDb' = savedDb
      /\ (\E i \in 1..Len(savedRequests) :
            /\ savedRequests[i].kind \in {"insert", "update"}
            /\ savedRequests[i].state = "answered"
            /\ savedRequests[i].result.status = "duplicate"
            /\ savedRequests' = RemoveAt(savedRequests, i)
            /\ last'.op # "savedFail")
         => /\ formMessage' = "duplicate"
            /\ formMessage' \notin {"failed", "required", NoMessage}
            /\ savedFoods' = savedFoods
            /\ savedDb' = savedDb
            /\ showForm' = showForm
            /\ formData' = formData
            /\ editingFoodId' = editingFoodId
            /\ saving' = FALSE ]_vars

\* A rename to the name of another food has just been refused while the form
\* is open with the entered name.
C14_Witness ==
  /\ last.op = "savedDuplicate"
  /\ last.id # 0
  /\ showForm
  /\ editingFoodId = last.id
  /\ NameTaken(savedDb, editingFoodId, formData.food_name)
  /\ formMessage = "duplicate"
  /\ Len(savedFoods) = 2
  /\ ~saving

\* C15: a submission of the log form or of the edit form with a missing
\* food name or with calories that are not a number or negative, and a
\* submission of the goals form with a goal that is not a number or outside
\* its range (calories 500..10000, protein 0..500, carbs 0..1000, fats
\* 0..300), issues no remote call and leaves the stored data unchanged.
C15_InvalidSubmissionBlocked ==
  [][ LET form == last'.data[1]
          EntryInvalid ==
            \/ form.food_name = ""
            \/ IF form.calories = Null THEN TRUE ELSE form.calories[1] < 0
          GoalInvalid(x, min, max) ==
            IF x = Null THEN TRUE ELSE x[1] < min \/ x[1] > max
          GoalsInvalid ==
            \/ GoalInvalid(form.daily_calories_goal, 500, 10000)
            \/ GoalInvalid(form.daily_protein_goal, 0, 500)
            \/ GoalInvalid(form.daily_carbs_goal, 0, 1000)
            \/ GoalInvalid(form.daily_fats_goal, 0, 300)
          NothingSent ==
            /\ logRequests' = logRequests
            /\ requests' = requests
            /\ goalsRequests' = goalsRequests
            /\ savedRequests' = savedRequests
          NothingStored ==
            /\ db' = db
            /\ goalsDb' = goalsDb
            /\ savedDb' = savedDb
      IN /\ (last'.op \in {"logSubmit", "editSubmit"} /\ EntryInvalid)
              => NothingSent /\ NothingStored
         /\ (last'.op = "goalsSubmit" /\ GoalsInvalid)
              => NothingSent /\ NothingStored ]_vars

\* The log form has just been submitted with negative calories and a name:
\* nothing is in flight, nothing is stored and the form is not loading.
C15_Witness ==
  /\ last.op = "logSubmit"
  /\ last.data[1].food_name = "apple"
  /\ last.data[1].calories = << 0 - 5 >>
  /\ logRequests = << >>
  /\ db = {}
  /\ ~logLoading

\* C16: whenever a goals read of the card finds no goals row (and no remote call fails
\* for another reason), the read ends with a row of the defaults
\* 2000/150/250/65 created if none exists, with exactly one row stored, with
\* that row held as the user's goals by the card, and without the read
\* setting an error.
C16_DefaultsCreatedOnFirstRead ==
  [][ /\ (\E i \in 1..Len(goalsCalls) :
            /\ last'.op = "goalsServer"
            /\ goalsCalls[i].stage = "insert"
            /\ goalsCalls[i].state = "sent"
            /\ goalsCalls'[i].state = "answered")
         => /\ Len(goalsDb') = 1
            /\ goalsDb = << >> => goalsDb' = << DefaultGoals >>
      /\ (\E i \in 1..Len(goalsCalls) :
            /\ goalsCalls[i].stage = "insert"
            /\ goalsCalls[i].state = "answered"
            /\ goalsCalls' = RemoveAt(goalsCalls, i)
            /\ last'.op # "goalsFail")
         => /\ Len(goalsDb') = 1
            /\ userGoals' = << DefaultGoals >>
            /\ goalsError' = goalsError ]_vars

\* C17: every update and every delete in flight, of a food entry or of a
\* saved food, is filtered by the user's id as well as by the id of the row.
C17_MutationsScopedByUser ==
  /\ \A i \in 1..Len(requests) :
       requests[i].kind \in {"update", "delete"}
         => {"id", "user_id"} \subseteq requests[i].match
  /\ \A i \in 1..Len(savedRequests) :
       savedRequests[i].kind \in {"update", "delete"}
         => {"id", "user_id"} \subseteq savedRequests[i].match

\* C19: a load of day d holds exactly the user's entries created on day d:
\* the backend answers the query of the load with every stored entry whose
\* created_at lies on day d, up to the end of the day, and with no entry of
\* another day, and the view holds that answer when the load succeeds.
C19_LoadHoldsExactlyTheDay ==
  [][ /\ last'.op = "query" =>
           \A i \in 1..Len(requests) :
             (requests[i].state = "sent" /\ requests'[i].state = "answered")
               => { requests'[i].data[k] : k \in 1..Len(requests'[i].data) }
                    = { r \in db : formatDate(r.created_at) = requests[i].date }
      /\ last'.op = "loadOk" => entries' = last'.data ]_vars

\* C20: in every reachable state the held entries are ordered newest first:
\* no entry is held before one with a later created_at.
C20_HeldListNewestFirst ==
  \A i \in 1..Len(entries), j \in 1..Len(entries) :
    i < j => entries[i].created_at >= entries[j].created_at

\* After an update has succeeded, two entries created at different instants
\* are held, the newer one first.
C20_Witness ==
  /\ last.op = "updateOk"
  /\ Len(entries) = 2
  /\ entries[1].created_at > entries[2].created_at

\* C18: the totals computation is order-independent and idempotent: applied
\* to the same entries in another order, and applied again to the same list,
\* it returns the totals it returned before.
C18_TotalsOrderIndependent ==
  [][ last'.op \in {"reorder", "calculate"} => totalsOutput' = totalsOutput ]_vars

\* C21: a successful update replaces the held entry that has the updated id
\* by the row the server returned and leaves every other held entry as it
\* was; when no held entry has that id the held list does not change; and the
\* edit modal is closed.
C21_UpdateReplacesHeldEntry ==
  [][ last'.op = "updateOk" =>
        LET rid == last'.id
            data == last'.data[1]
        IN /\ entries' = [k \in 1..Len(entries) |->
                            IF entries[k].id = rid THEN data ELSE entries[k]]
           /\ (rid \notin Ids(entries) => entries' = entries)
           /\ ~isEditModalOpen'
           /\ entryToEdit' = << >> ]_vars

\* An update of one of two held entries has succeeded: the entry has the
\* edited quantity, the other entry its own, and the modal is closed.
C21_Witness ==
  /\ last.op = "updateOk"
  /\ Len(entries) = 2
  /\ \E k \in 1..2 : /\ entries[k].id = last.id
                      /\ entries[k].quantity = << 2 >>
                      /\ entries[3 - k].id # last.id
                      /\ entries[3 - k].quantity = << 1 >>
  /\ ~isEditModalOpen
  /\ entryToEdit = << >>

\* C22: every row the log form sends to the backend, and every patch the
\* edit form sends, has a quantity above 0 and each of protein, carbs and
\* fats absent or at least 0.
C22_SentRowsSatisfyDataModel ==
  LET Allowed(data) ==
        /\ data.quantity # Null /\ data.quantity[1] > 0
        /\ \A field \in {"protein", "carbs", "fats"} :
             IF data[field] = Null THEN TRUE ELSE data[field][1] >= 0
  IN /\ \A i \in 1..Len(logRequests) : Allowed(logRequests[i].data)
     /\ \A i \in 1..Len(requests) :
          requests[i].kind = "update" => Allowed(requests[i].patch[1])

\* The edit form has just been submitted with a blank protein field and the
\* quantity 2, and its patch is in flight.
C22_Witness ==
  /\ last.op = "editSubmit"
  /\ last.data[1].protein = Null
  /\ \E i \in 1..Len(requests) :
       /\ requests[i].kind = "update"
       /\ requests[i].patch[1].protein = Null
       /\ requests[i].patch[1].quantity = << 2 >>

\* C23: once no summary request is outstanding, the held weekly summary is
\* the response for the selected week and the held monthly summary is the
\* response for the selected month.
C23_SettledSummariesAreCurrent ==
  (summaryMounted /\ calls = << >>) =>
    /\ weeklySummary # << >> =>
         weeklySummary[1].week_start_display = StartOfWeek(currentWeekDate)
    /\ monthlySummary # << >> =>
         monthlySummary[1].month_display =
           << getFullYear(currentMonthDate), getMonth(currentMonthDate) + 1 >>

\* C24: while the view is mounted and at least one load is in flight, the
\* loading flag is true.
C24_LoadingWhileLoadInFlight == (mounted /\ Loads # {}) => loading

\* C25: when the edit form is opened for an entry and saved with no field
\* changed, a patch is handed on whose food name, calories, protein, carbs,
\* fats and quantity equal those of the entry.
C25_EditRoundTrip ==
  last.op = "saveUnchanged" =>
    /\ editSaved # << >>
    /\ \A field \in {"food_name", "calories", "protein", "carbs", "fats",
                      "quantity"} :
         editSaved[1][field] = editEntry[1][field]

\* C26: the confirmation modal is open exactly when a pending delete id is
\* held; a pending id is set only by requestDeleteEntry, to the id of a held
\* entry; a remote delete is issued only by confirmDeleteEntry, for the
\* pending id, and in the state where it is issued the modal is closed and
\* the pending id cleared; cancelDelete issues no remote call and leaves the
\* held entries unchanged.
C26_DeleteOnlyAfterConfirm ==
  /\ [](isDeleteConfirmOpen <=> itemIdToDelete # 0)
  /\ [][ /\ (itemIdToDelete' # itemIdToDelete /\ itemIdToDelete' # 0) =>
              (last'.op = "requestDelete" /\ itemIdToDelete' \in Ids(entries))
         /\ (\E i \in 1..Len(requests') :
                /\ requests'[i].kind = "delete"
                /\ Cardinality({ k \in 1..Len(requests') :
                                   /\ requests'[k].kind = "delete"
                                   /\ requests'[k].id = requests'[i].id })
                     > Cardinality({ k \in 1..Len(requests) :
                                       /\ requests[k].kind = "delete"
                                       /\ requests[k].id = requests'[i].id })) =>
              /\ last'.op = "confirmDelete"
              /\ isDeleteConfirmOpen
              /\ itemIdToDelete # 0
              /\ requests' = Append(requests, DeleteRequest(itemIdToDelete))
              /\ ~isDeleteConfirmOpen'
              /\ itemIdToDelete' = 0
         /\ last'.op = "cancelDelete" =>
              /\ requests' = requests
              /\ entries' = entries
              /\ db' = db ]_vars

\* The delete of a held entry has just been confirmed: its remote call is in
\* flight, the modal is closed and no id is pending.
C26_Witness ==
  /\ last.op = "confirmDelete"
  /\ last.id \in Ids(entries)
  /\ \E i \in 1..Len(requests) :
       requests[i].kind = "delete" /\ requests[i].id = last.id
  /\ ~isDeleteConfirmOpen
  /\ itemIdToDelete = 0

\* C27: a press of the previous or next month button moves the selected
\* month to the calendar month just before or just after it, whatever the
\* day of the month of the held date; a press of the previous or next week
\* button moves the selected date by exactly 7 days.
C27_PeriodButtonsMoveByOne ==
  [][ /\ last'.op = "changeMonth" =>
           MonthIndex(currentMonthDate') - MonthIndex(currentMonthDate)
             \in {0 - 1, 1}
      /\ last'.op = "changeWeek" =>
           toDateString(currentWeekDate') - toDateString(currentWeekDate)
             \in {0 - 7, 7} ]_vars

\* C28: when the handler of a successful insert or update of a saved food
\* has finished, the form message is the success text, and the held list
\* holds the saved food and is sorted by name.
C28_SuccessMessageShown ==
  last.op \in {"savedInsertOk", "savedUpdateOk"} =>
    /\ formMessage = (IF last.op = "savedInsertOk" THEN "saved" ELSE "updated")
    /\ savedFoods = SortByName(savedFoods)
    /\ last.op = "savedUpdateOk" =>
         \E k \in 1..Len(savedFoods) :
           savedFoods[k].id = last.id /\ savedFoods[k].food_name # ""

\* C29: when every remote call that was issued returns a result or an
\* error, every load of the entries, of the saved foods, of the goals (by
\* the goals card and by the goals form) and of the weekly and monthly
\* summaries, and every save of a saved food, of a logged entry, of an
\* edited entry and of the goals, ends with its loading or saving flag
\* cleared.
C29_LoadsAndSavesTerminate ==
  /\ (mounted /\ loading) ~> ~loading
  /\ (savedMounted /\ savedLoading) ~> ~savedLoading
  /\ (goalsMounted /\ goalsLoading) ~> ~goalsLoading
  /\ (summaryMounted /\ loadingWeekly) ~> ~loadingWeekly
  /\ (summaryMounted /\ loadingMonthly) ~> ~loadingMonthly
  /\ saving ~> ~saving
  /\ logLoading ~> ~logLoading
  /\ editLoading ~> ~editLoading
  /\ goalsFormLoading ~> ~goalsFormLoading
  /\ goalsSaving ~> ~goalsSaving

\* A load of the entries has just failed and the loading flag is cleared.
C29_Witness ==
  /\ last.op = "loadFail"
  /\ mounted
  /\ Loads = {}
  /\ ~loading
  /\ error = "load"

====
